---- MODULE Spec2Model ----
(***************************************************************************)
(* A model of the EOF V1 container library (execution_tests_library) and   *)
(* of the EOF V1 fixture filler (fillers/eof/v1.py).                       *)
(*                                                                         *)
(* Python values are represented as follows.                               *)
(*   bytes          a sequence of integers in 0..255                       *)
(*   str            a sequence of one-character strings (so that the hex   *)
(*                  parser can look at the characters); names that are     *)
(*                  only built and compared are TLA+ strings               *)
(*   Optional[T]    << >> for None, <<v>> for the value v                  *)
(*   Code|str|bytes|None   a record tagged by its field "type"             *)
(*   a call that may raise   [ok |-> TRUE, val |-> v] for a return,        *)
(*                           [ok |-> FALSE, exc |-> e] for an exception    *)
(***************************************************************************)
EXTENDS Integers, Sequences, FiniteSets, TLC

VARIABLES
    pc,                      \* position of the running scenario
    container,               \* the Container handed to Container.assemble
    result,                  \* what Container.assemble returned or raised
    code,                    \* the argument of generate_initcode
    initcode,                \* what generate_initcode returned or raised
    ALL_VALID_CONTAINERS,    \* fillers/eof/v1.py module list
    ALL_INVALID_CONTAINERS,  \* fillers/eof/v1.py module list
    idx,                     \* index of the loop being run
    enabled_eips,            \* the list V1_EOF_EIPS the filler module runs with
    other_code,              \* the argument other of Code.__add__ / __radd__
    eof_types,               \* the argument types of make_eof
    eof_data,                \* the argument data of make_eof
    tx,                      \* the Transaction object of a test generator
    post,                    \* the post-state object of a test generator
    tests,                   \* the StateTest objects a generator has yielded
    cached_version,          \* EvmTransitionTool.cached_version
    version_calls            \* the version() calls made so far, in order

operand_vars == <<other_code, eof_types, eof_data>>
generator_vars == <<tx, post, tests>>
tool_vars == <<cached_version, version_calls>>

vars == <<pc, container, result, code, initcode,
          ALL_VALID_CONTAINERS, ALL_INVALID_CONTAINERS, idx, enabled_eips,
          operand_vars, generator_vars, tool_vars>>

----------------------------------------------------------------------------
(* Python values                                                           *)

None == << >>
Some(v) == <<v>>

Ok(v) == [ok |-> TRUE, val |-> v]
Raise(e) == [ok |-> FALSE, exc |-> e]

\* a + b on two byte results, evaluated left to right: the first exception wins
Cat(a, b) ==
    IF ~a.ok THEN a
    ELSE IF ~b.ok THEN b
    ELSE Ok(a.val \o b.val)

\* to_bytes that wraps instead of raising
to_bytes_wrapping(n, length) ==
    Ok([i \in 1..length |-> ((n % (256 ^ length)) \div (256 ^ (length - i))) % 256])

\* to_bytes with the range of a signed integer (signed=True)
to_bytes_signed_range(n, length) ==
    IF n < 0 \/ 2 * n >= 256 ^ length
    THEN Raise("OverflowError")
    ELSE Ok([i \in 1..length |-> (n \div (256 ^ (length - i))) % 256])

\* int.to_bytes(length, byteorder="big"), unsigned
to_bytes(n, length) ==
    IF n < 0 \/ n >= 256 ^ length
    THEN Raise("OverflowError")
    ELSE Ok([i \in 1..length |-> (n \div (256 ^ (length - i))) % 256])

NoneData == [type |-> "None"]
Bytes(b) == [type |-> "bytes", bytes |-> b]
Str(s) == [type |-> "str", str |-> s]
Code(bytecode, name) == [type |-> "Code", bytecode |-> bytecode, name |-> name]

\* no operation on code values or make_eof call is under way
NoOperands == other_code = NoneData /\ eof_types = << >> /\ eof_data = << >>

\* no test generator has been called
NoGenerator == tx = None /\ post = None /\ tests = << >>

\* no transition tool has been constructed
NoTool == cached_version = None /\ version_calls = << >>

----------------------------------------------------------------------------
(* execution_tests_library/code/code.py                                    *)

Whitespace == {" ", "\t", "\n", "\r"}

\* re.sub that removes the first run of whitespace only (count=1)
sub_whitespace_once(s) ==
    LET first == { i \in 1..Len(s) : s[i] \in Whitespace }
    IN  IF first = {} THEN s
        ELSE LET a == CHOOSE i \in first : \A j \in first : i <= j
                 b == CHOOSE i \in a..Len(s) :
                         /\ \A j \in a..i : s[j] \in Whitespace
                         /\ (i = Len(s) \/ s[i + 1] \notin Whitespace)
             IN  SubSeq(s, 1, a - 1) \o SubSeq(s, b + 1, Len(s))

\* re.sub(r"\s+", "", code)
sub_whitespace(s) == SelectSeq(s, LAMBDA ch : ch \notin Whitespace)

startswith_0x(s) == Len(s) >= 2 /\ s[1] = "0" /\ s[2] = "x"

HexChars == <<"0", "1", "2", "3", "4", "5", "6", "7", "8", "9",
              "a", "b", "c", "d", "e", "f">>
HexCharsUpper == <<"0", "1", "2", "3", "4", "5", "6", "7", "8", "9",
                   "A", "B", "C", "D", "E", "F">>

IsHexChar(ch) == \E d \in 1..16 : ch = HexChars[d] \/ ch = HexCharsUpper[d]
HexVal(ch) == (CHOOSE d \in 1..16 : ch = HexChars[d] \/ ch = HexCharsUpper[d]) - 1

\* bytes.fromhex(s) on a string without whitespace
fromhex(s) ==
    IF Len(s) % 2 # 0 \/ \E i \in 1..Len(s) : ~IsHexChar(s[i])
    THEN Raise("ValueError")
    ELSE Ok([i \in 1..(Len(s) \div 2) |->
                16 * HexVal(s[2 * i - 1]) + HexVal(s[2 * i])])

\* Code.assemble
Code_assemble(self) ==
    IF self.bytecode = None THEN Ok(<< >>) ELSE Ok(self.bytecode[1])

RECURSIVE code_to_bytes(_)

----------------------------------------------------------------------------
(* execution_tests_library/eof/v1/__init__.py                              *)

EOF_MAGIC == <<0>>
EOF_HEADER_TERMINATOR == <<0>>
VERSION_NUMBER == <<1>>
VERSION_MAX_SECTION_KIND == 3

SectionKind == [CODE |-> 1, DATA |-> 2, TYPE |-> 3]

Section(kind, data, custom_size) ==
    [kind |-> kind, data |-> data, custom_size |-> custom_size]

Container(sections, custom_magic, custom_version, custom_terminator, extra, name) ==
    [type |-> "Container", sections |-> sections,
     custom_magic |-> custom_magic, custom_version |-> custom_version,
     custom_terminator |-> custom_terminator, extra |-> extra,
     name |-> name]

\* get_header that defaults a missing size to 0 instead of raising
get_header_default_size(self) ==
    LET size == IF self.custom_size # None
                THEN Ok(self.custom_size[1])
                ELSE IF self.data.type = "None"
                     THEN Ok(0)
                     ELSE LET b == code_to_bytes(self.data)
                          IN  IF b.ok THEN Ok(Len(b.val)) ELSE b
    IN  IF ~size.ok THEN size
        ELSE Cat(to_bytes(self.kind, 1), to_bytes(size.val, 2))

\* Section.get_header
get_header(self) ==
    LET size == IF self.custom_size # None
                THEN Ok(self.custom_size[1])
                ELSE IF self.data.type = "None"
                     THEN Raise("Exception")
                     ELSE LET b == code_to_bytes(self.data)
                          IN  IF b.ok THEN Ok(Len(b.val)) ELSE b
    IN  IF ~size.ok THEN size
        ELSE Cat(to_bytes(self.kind, 1), to_bytes(size.val, 2))

\* for s in self.sections: c += s.get_header()
RECURSIVE add_headers(_, _)
add_headers(c, sections) ==
    IF sections = << >> \/ ~c.ok THEN c
    ELSE add_headers(Cat(c, get_header(Head(sections))), Tail(sections))

\* bodies emitted last section first
RECURSIVE add_bodies_reversed(_, _)
add_bodies_reversed(c, sections) ==
    IF sections = << >> \/ ~c.ok THEN c
    ELSE LET s == sections[Len(sections)]
             body == code_to_bytes(IF s.data.type # "None" THEN s.data
                                   ELSE Str(<<"0", "x">>))
         IN  add_bodies_reversed(Cat(c, body),
                                 SubSeq(sections, 1, Len(sections) - 1))

\* bodies padded with zero bytes or cut to the declared size
RECURSIVE add_bodies_resized(_, _)
add_bodies_resized(c, sections) ==
    IF sections = << >> \/ ~c.ok THEN c
    ELSE LET s == Head(sections)
             body == code_to_bytes(IF s.data.type # "None" THEN s.data
                                   ELSE Str(<<"0", "x">>))
             sized == IF ~body.ok \/ s.custom_size = None THEN body
                      ELSE Ok([i \in 1..s.custom_size[1] |->
                                 IF i <= Len(body.val) THEN body.val[i] ELSE 0])
         IN  add_bodies_resized(Cat(c, sized), Tail(sections))

\* for s in self.sections:
\*     c += code_to_bytes(s.data if s.data is not None else "0x")
RECURSIVE add_bodies(_, _)
add_bodies(c, sections) ==
    IF sections = << >> \/ ~c.ok THEN c
    ELSE LET s == Head(sections)
             body == code_to_bytes(IF s.data.type # "None" THEN s.data
                                   ELSE Str(<<"0", "x">>))
         IN  add_bodies(Cat(c, body), Tail(sections))

\* assemble testing the terminator override by truth value, so that an
\* empty override counts as unset
assemble_truthy_terminator(self) ==
    LET c0 == Ok(<<239>>)
        c1 == Cat(c0, IF self.custom_magic = None
                      THEN Ok(EOF_MAGIC)
                      ELSE to_bytes(self.custom_magic[1], 1))
        c2 == Cat(c1, IF self.custom_version = None
                      THEN Ok(VERSION_NUMBER)
                      ELSE to_bytes(self.custom_version[1], 1))
        c3 == add_headers(c2, self.sections)
        c4 == Cat(c3, IF self.custom_terminator # None
                         /\ self.custom_terminator[1] # << >>
                      THEN Ok(self.custom_terminator[1])
                      ELSE Ok(EOF_HEADER_TERMINATOR))
        c5 == add_bodies(c4, self.sections)
        c6 == IF self.extra # None THEN Cat(c5, Ok(self.extra[1])) ELSE c5
    IN  c6

\* assemble emitting the marker twice: once on its own, once as the first
\* byte of a two-byte magic
assemble_marker_in_magic(self) ==
    LET c0 == Ok(<<239>>)
        c1 == Cat(c0, IF self.custom_magic = None
                      THEN Ok(<<239>> \o EOF_MAGIC)
                      ELSE to_bytes(self.custom_magic[1], 1))
        c2 == Cat(c1, IF self.custom_version = None
                      THEN Ok(VERSION_NUMBER)
                      ELSE to_bytes(self.custom_version[1], 1))
        c3 == add_headers(c2, self.sections)
        c4 == Cat(c3, IF self.custom_terminator # None
                      THEN Ok(self.custom_terminator[1])
                      ELSE Ok(EOF_HEADER_TERMINATOR))
        c5 == add_bodies(c4, self.sections)
        c6 == IF self.extra # None THEN Cat(c5, Ok(self.extra[1])) ELSE c5
    IN  c6

\* Container.assemble
assemble(self) ==
    LET c0 == Ok(<<239>>)
        c1 == Cat(c0, IF self.custom_magic = None
                      THEN Ok(EOF_MAGIC)
                      ELSE to_bytes(self.custom_magic[1], 1))
        c2 == Cat(c1, IF self.custom_version = None
                      THEN Ok(VERSION_NUMBER)
                      ELSE to_bytes(self.custom_version[1], 1))
        c3 == add_headers(c2, self.sections)
        c4 == Cat(c3, IF self.custom_terminator # None
                      THEN Ok(self.custom_terminator[1])
                      ELSE Ok(EOF_HEADER_TERMINATOR))
        c5 == add_bodies(c4, self.sections)
        c6 == IF self.extra # None THEN Cat(c5, Ok(self.extra[1])) ELSE c5
    IN  c6

\* code_to_bytes that reads a Container as the plain Code it inherits from
\* (Code.assemble on a bytecode that was never set)
code_to_bytes_as_plain_code(c) ==
    CASE c.type = "None" -> Raise("Exception")
      [] c.type = "Container" -> Ok(<< >>)
      [] c.type = "Code" -> Code_assemble(c)
      [] c.type = "bytes" -> Ok(c.bytes)
      [] c.type = "str" ->
            LET s == sub_whitespace(c.str)
            IN  IF startswith_0x(s)
                THEN fromhex(SubSeq(s, 3, Len(s)))
                ELSE fromhex(s)
      [] OTHER -> Raise("Exception")

\* code_to_bytes
code_to_bytes(c) ==
    CASE c.type = "None" -> Raise("Exception")
      [] c.type = "Container" -> assemble(c)
      [] c.type = "Code" -> Code_assemble(c)
      [] c.type = "bytes" -> Ok(c.bytes)
      [] c.type = "str" ->
            LET s == sub_whitespace(c.str)
            IN  IF startswith_0x(s)
                THEN fromhex(SubSeq(s, 3, Len(s)))
                ELSE fromhex(s)
      [] OTHER -> Raise("Exception")

----------------------------------------------------------------------------
(* Serializer scenario: a container is built, then assembled once.         *)

MaxSections == 2

\* a nested container, as in test_eof_v1.py "Nested EOF"
NestedInput ==
    Container(<<Section(SectionKind.CODE, Str(<<"0", "x", "0", "1">>), None)>>,
              None, None, None, None, None)

\* (data, custom_size) pairs: no data at all, a header without a body, a
\* plain body, a declared size that differs from the body, a size that does
\* not fit two bytes, hex text with whitespace, malformed hex text, an empty
\* body under a declared size, a nested container
DataSizeInputs ==
    { <<NoneData, None>>,
      <<NoneData, Some(2)>>,
      <<Bytes(<<170, 187>>), None>>,
      <<Bytes(<<170, 187>>), Some(258)>>,
      <<Bytes(<<170>>), Some(65536)>>,
      <<Str(<<"0", "x", " ", "6", "0", " ", "0", "0", "F", "e">>), None>>,
      <<Str(<<"0", "x", "0">>), None>>,
      <<Str(<<"0", "x">>), Some(2)>>,
      <<NestedInput, None>> }

SectionInputs ==
    { Section(SectionKind.CODE, p[1], p[2]) : p \in DataSizeInputs }
    \cup
    { Section(k, d, None) : k \in {SectionKind.DATA, 254, 256},
                            d \in {NoneData, Bytes(<<170, 187>>)} }

RECURSIVE SeqsUpTo(_, _)
SeqsUpTo(S, n) ==
    IF n = 0 THEN { << >> }
    ELSE LET shorter == SeqsUpTo(S, n - 1)
         IN  shorter \cup { Append(q, x) : q \in shorter, x \in S }

ContainerInputs ==
    { Container(ss, m, v, t, e, None) :
        ss \in SeqsUpTo(SectionInputs, MaxSections),
        m \in {None, Some(254), Some(256)},
        v \in {None, Some(2)},
        t \in {None, Some(<< >>), Some(<<255, 1>>)},
        e \in {None, Some(<<238>>)} }

Init ==
    /\ pc = "built"
    /\ container \in ContainerInputs
    /\ result = None
    /\ code = NoneData
    /\ initcode = None
    /\ ALL_VALID_CONTAINERS = << >>
    /\ ALL_INVALID_CONTAINERS = << >>
    /\ idx = 0
    /\ enabled_eips = << >>
    /\ NoOperands /\ NoGenerator /\ NoTool

Assemble ==
    /\ pc = "built"
    /\ result' = Some(assemble(container))
    /\ pc' = "assembled"
    /\ UNCHANGED <<container, code, initcode,
                   ALL_VALID_CONTAINERS, ALL_INVALID_CONTAINERS, idx,
                   enabled_eips>>
    /\ UNCHANGED <<operand_vars, generator_vars, tool_vars>>

Next == Assemble

Spec == Init /\ [][Next]_vars

----------------------------------------------------------------------------
(* execution_tests_library/code/code.py: generate_initcode                 *)

\* generate_initcode with the copy offset one short of the template length
generate_initcode_short_offset(c) ==
    LET code_bytes == code_to_bytes(c)
        head == Cat(Ok(<<97>>),
                    IF code_bytes.ok THEN to_bytes(Len(code_bytes.val), 2)
                    ELSE code_bytes)
    IN  IF ~code_bytes.ok THEN code_bytes
        ELSE IF ~head.ok THEN head
        ELSE Ok(Code(Some(head.val \o <<96, 0, 129, 96, 10, 130, 57, 243>>
                          \o code_bytes.val), None))

\* generate_initcode
generate_initcode(c) ==
    LET code_bytes == code_to_bytes(c)
        \* PUSH2 length
        head == Cat(Ok(<<97>>),
                    IF code_bytes.ok THEN to_bytes(Len(code_bytes.val), 2)
                    ELSE code_bytes)
    IN  IF ~code_bytes.ok THEN code_bytes
        ELSE IF ~head.ok THEN head
        \* PUSH1 0, DUP2, PUSH1 11, DUP3, CODECOPY, RETURN
        ELSE Ok(Code(Some(head.val \o <<96, 0, 129, 96, 11, 130, 57, 243>>
                          \o code_bytes.val), None))

----------------------------------------------------------------------------
(* Initcode scenario: a payload is chosen, then wrapped once.              *)

MaxPayloadLen == 3

PayloadBytes == {0, 97, 255}

\* payload lengths around the one- and two-byte limits of the length field
LongPayloadLens == {255, 256, 1000, 65535, 65536}

PayloadInputs ==
    SeqsUpTo(PayloadBytes, MaxPayloadLen)
    \cup { [i \in 1..n |-> 255] : n \in LongPayloadLens }

CodeInputs ==
    { Bytes(p) : p \in PayloadInputs }
    \cup { Code(Some(p), None) : p \in SeqsUpTo(PayloadBytes, MaxPayloadLen) }
    \cup { Code(None, None), NoneData, NestedInput,
           Str(<<"0", "x", "0", "0">>),
           Str(<<"0", "x", " ", "6", "1", " ", "0", "0", "0", "1">>),
           Str(<<"0", "x", "0">>) }

InitInitcode ==
    /\ pc = "chosen"
    /\ code \in CodeInputs
    /\ initcode = None
    /\ container = NestedInput
    /\ result = None
    /\ ALL_VALID_CONTAINERS = << >>
    /\ ALL_INVALID_CONTAINERS = << >>
    /\ idx = 0
    /\ enabled_eips = << >>
    /\ NoOperands /\ NoGenerator /\ NoTool

GenerateInitcode ==
    /\ pc = "chosen"
    /\ initcode' = Some(generate_initcode(code))
    /\ pc' = "generated"
    /\ UNCHANGED <<container, result, code,
                   ALL_VALID_CONTAINERS, ALL_INVALID_CONTAINERS, idx,
                   enabled_eips>>
    /\ UNCHANGED <<operand_vars, generator_vars, tool_vars>>

NextInitcode == GenerateInitcode

SpecInitcode == InitInitcode /\ [][NextInitcode]_vars

----------------------------------------------------------------------------
(* fillers/eof/v1.py                                                       *)

EIP_EOF == 3540
EIP_CODE_VALIDATION == 3670
EIP_STATIC_RELATIVE_JUMPS == 4200
EIP_EOF_FUNCTIONS == 4750
EIP_EOF_STACK_VALIDATION == 5450

V1_EOF_EIPS ==
    <<EIP_EOF, EIP_CODE_VALIDATION, EIP_STATIC_RELATIVE_JUMPS, EIP_EOF_FUNCTIONS>>

\* x in list
In(x, list) == \E i \in 1..Len(list) : list[i] = x

LATEST_EOF_VERSION == 1

\* Opcode.__init__ that never takes min_stack_height from popped_stack_items
Opcode_without_default_height(byte, popped_stack_items, pushed_stack_items, min_stack_height, data_portion_length) ==
    [byte_int |-> byte,
     byte |-> <<byte>>,
     popped_stack_items |-> popped_stack_items,
     pushed_stack_items |-> pushed_stack_items,
     min_stack_height |-> IF min_stack_height # None
                          THEN min_stack_height[1]
                          ELSE 0,
     data_portion_length |-> data_portion_length]

\* Opcode.__init__ called with keyword arguments
Opcode(byte, popped_stack_items, pushed_stack_items, min_stack_height, data_portion_length) ==
    [byte_int |-> byte,
     byte |-> <<byte>>,
     popped_stack_items |-> popped_stack_items,
     pushed_stack_items |-> pushed_stack_items,
     min_stack_height |-> IF min_stack_height # None
                          THEN min_stack_height[1]
                          ELSE popped_stack_items,
     data_portion_length |-> data_portion_length]

\* an enumeration member that takes the byte of its even neighbour
Member_sharing_bytes(name, opcode) ==
    [name |-> name,
     byte_int |-> (opcode.byte_int \div 2) * 2,
     byte |-> <<(opcode.byte_int \div 2) * 2>>,
     popped_stack_items |-> opcode.popped_stack_items,
     pushed_stack_items |-> opcode.pushed_stack_items,
     min_stack_height |-> opcode.min_stack_height,
     data_portion_length |-> opcode.data_portion_length]

\* a member of the enumeration OPCODES: Opcode.__init__ called with the
\* Opcode that is the member's value, plus the member's name
Member(name, opcode) ==
    [name |-> name,
     byte_int |-> opcode.byte_int,
     byte |-> opcode.byte,
     popped_stack_items |-> opcode.popped_stack_items,
     pushed_stack_items |-> opcode.pushed_stack_items,
     min_stack_height |-> opcode.min_stack_height,
     data_portion_length |-> opcode.data_portion_length]

OPCODES ==
    <<
       Member(<<"S", "T", "O", "P">>, Opcode(0, 0, 0, None, 0)),
       Member(<<"A", "D", "D">>, Opcode(1, 2, 1, None, 0)),
       Member(<<"M", "U", "L">>, Opcode(2, 2, 1, None, 0)),
       Member(<<"S", "U", "B">>, Opcode(3, 2, 1, None, 0)),
       Member(<<"D", "I", "V">>, Opcode(4, 2, 1, None, 0)),
       Member(<<"S", "D", "I", "V">>, Opcode(5, 2, 1, None, 0)),
       Member(<<"M", "O", "D">>, Opcode(6, 2, 1, None, 0)),
       Member(<<"S", "M", "O", "D">>, Opcode(7, 2, 1, None, 0)),
       Member(<<"A", "D", "D", "M", "O", "D">>, Opcode(8, 3, 1, None, 0)),
       Member(<<"M", "U", "L", "M", "O", "D">>, Opcode(9, 3, 1, None, 0)),
       Member(<<"E", "X", "P">>, Opcode(10, 2, 1, None, 0)),
       Member(<<"S", "I", "G", "N", "E", "X", "T", "E", "N", "D">>, Opcode(11, 2, 1, None, 0)),
       Member(<<"L", "T">>, Opcode(16, 2, 1, None, 0)),
       Member(<<"G", "T">>, Opcode(17, 2, 1, None, 0)),
       Member(<<"S", "L", "T">>, Opcode(18, 2, 1, None, 0)),
       Member(<<"S", "G", "T">>, Opcode(19, 2, 1, None, 0)),
       Member(<<"E", "Q">>, Opcode(20, 2, 1, None, 0)),
       Member(<<"I", "S", "Z", "E", "R", "O">>, Opcode(21, 1, 1, None, 0)),
       Member(<<"A", "N", "D">>, Opcode(22, 2, 1, None, 0)),
       Member(<<"O", "R">>, Opcode(23, 2, 1, None, 0)),
       Member(<<"X", "O", "R">>, Opcode(24, 2, 1, None, 0)),
       Member(<<"N", "O", "T">>, Opcode(25, 1, 1, None, 0)),
       Member(<<"B", "Y", "T", "E">>, Opcode(26, 2, 1, None, 0)),
       Member(<<"S", "H", "L">>, Opcode(27, 2, 1, None, 0)),
       Member(<<"S", "H", "R">>, Opcode(28, 2, 1, None, 0)),
       Member(<<"S", "A", "R">>, Opcode(29, 2, 1, None, 0)),
       Member(<<"S", "H", "A", "3">>, Opcode(32, 2, 1, None, 0)),
       Member(<<"A", "D", "D", "R", "E", "S", "S">>, Opcode(48, 0, 1, None, 0)),
       Member(<<"B", "A", "L", "A", "N", "C", "E">>, Opcode(49, 1, 1, None, 0)),
       Member(<<"O", "R", "I", "G", "I", "N">>, Opcode(50, 0, 1, None, 0)),
       Member(<<"C", "A", "L", "L", "E", "R">>, Opcode(51, 0, 1, None, 0)),
       Member(<<"C", "A", "L", "L", "V", "A", "L", "U", "E">>, Opcode(52, 0, 1, None, 0)),
       Member(<<"C", "A", "L", "L", "D", "A", "T", "A", "L", "O", "A", "D">>, Opcode(53, 1, 1, None, 0)),
       Member(<<"C", "A", "L", "L", "D", "A", "T", "A", "S", "I", "Z", "E">>, Opcode(54, 0, 1, None, 0)),
       Member(<<"C", "A", "L", "L", "D", "A", "T", "A", "C", "O", "P", "Y">>, Opcode(55, 3, 0, None, 0)),
       Member(<<"C", "O", "D", "E", "S", "I", "Z", "E">>, Opcode(56, 0, 1, None, 0)),
       Member(<<"C", "O", "D", "E", "C", "O", "P", "Y">>, Opcode(57, 3, 0, None, 0)),
       Member(<<"G", "A", "S", "P", "R", "I", "C", "E">>, Opcode(58, 0, 1, None, 0)),
       Member(<<"E", "X", "T", "C", "O", "D", "E", "S", "I", "Z", "E">>, Opcode(59, 1, 1, None, 0)),
       Member(<<"E", "X", "T", "C", "O", "D", "E", "C", "O", "P", "Y">>, Opcode(60, 4, 0, None, 0)),
       Member(<<"R", "E", "T", "U", "R", "N", "D", "A", "T", "A", "S", "I", "Z", "E">>, Opcode(61, 0, 1, None, 0)),
       Member(<<"R", "E", "T", "U", "R", "N", "D", "A", "T", "A", "C", "O", "P", "Y">>, Opcode(62, 3, 0, None, 0)),
       Member(<<"E", "X", "T", "C", "O", "D", "E", "H", "A", "S", "H">>, Opcode(63, 1, 1, None, 0)),
       Member(<<"B", "L", "O", "C", "K", "H", "A", "S", "H">>, Opcode(64, 1, 1, None, 0)),
       Member(<<"C", "O", "I", "N", "B", "A", "S", "E">>, Opcode(65, 0, 1, None, 0)),
       Member(<<"T", "I", "M", "E", "S", "T", "A", "M", "P">>, Opcode(66, 0, 1, None, 0)),
       Member(<<"N", "U", "M", "B", "E", "R">>, Opcode(67, 0, 1, None, 0)),
       Member(<<"P", "R", "E", "V", "R", "A", "N", "D", "A", "O">>, Opcode(68, 0, 1, None, 0)),
       Member(<<"G", "A", "S", "L", "I", "M", "I", "T">>, Opcode(69, 0, 1, None, 0)),
       Member(<<"C", "H", "A", "I", "N", "I", "D">>, Opcode(70, 0, 1, None, 0)),
       Member(<<"S", "E", "L", "F", "B", "A", "L", "A", "N", "C", "E">>, Opcode(71, 0, 1, None, 0)),
       Member(<<"B", "A", "S", "E", "F", "E", "E">>, Opcode(72, 0, 1, None, 0)),
       Member(<<"P", "O", "P">>, Opcode(80, 1, 0, None, 0)),
       Member(<<"M", "L", "O", "A", "D">>, Opcode(81, 1, 1, None, 0)),
       Member(<<"M", "S", "T", "O", "R", "E">>, Opcode(82, 2, 0, None, 0)),
       Member(<<"M", "S", "T", "O", "R", "E", "8">>, Opcode(83, 2, 0, None, 0)),
       Member(<<"S", "L", "O", "A", "D">>, Opcode(84, 1, 1, None, 0)),
       Member(<<"S", "S", "T", "O", "R", "E">>, Opcode(85, 2, 0, None, 0)),
       Member(<<"J", "U", "M", "P">>, Opcode(86, 1, 0, None, 0)),
       Member(<<"J", "U", "M", "P", "I">>, Opcode(87, 2, 0, None, 0)),
       Member(<<"P", "C">>, Opcode(88, 0, 1, None, 0)),
       Member(<<"M", "S", "I", "Z", "E">>, Opcode(89, 0, 1, None, 0)),
       Member(<<"G", "A", "S">>, Opcode(90, 0, 1, None, 0)),
       Member(<<"J", "U", "M", "P", "D", "E", "S", "T">>, Opcode(91, 0, 0, None, 0)),
       Member(<<"R", "J", "U", "M", "P">>, Opcode(92, 0, 0, None, 2)),
       Member(<<"R", "J", "U", "M", "P", "I">>, Opcode(93, 1, 0, None, 2)),
       Member(<<"C", "A", "L", "L", "F">>, Opcode(176, 0, 0, Some(0), 2)),
       Member(<<"R", "E", "T", "F">>, Opcode(177, 0, 0, Some(0), 0)),
       Member(<<"P", "U", "S", "H", "0">>, Opcode(95, 0, 1, None, 0)),
       Member(<<"P", "U", "S", "H", "1">>, Opcode(96, 0, 1, None, 1)),
       Member(<<"P", "U", "S", "H", "2">>, Opcode(97, 0, 1, None, 2)),
       Member(<<"P", "U", "S", "H", "3">>, Opcode(98, 0, 1, None, 3)),
       Member(<<"P", "U", "S", "H", "4">>, Opcode(99, 0, 1, None, 4)),
       Member(<<"P", "U", "S", "H", "5">>, Opcode(100, 0, 1, None, 5)),
       Member(<<"P", "U", "S", "H", "6">>, Opcode(101, 0, 1, None, 6)),
       Member(<<"P", "U", "S", "H", "7">>, Opcode(102, 0, 1, None, 7)),
       Member(<<"P", "U", "S", "H", "8">>, Opcode(103, 0, 1, None, 8)),
       Member(<<"P", "U", "S", "H", "9">>, Opcode(104, 0, 1, None, 9)),
       Member(<<"P", "U", "S", "H", "1", "0">>, Opcode(105, 0, 1, None, 10)),
       Member(<<"P", "U", "S", "H", "1", "1">>, Opcode(106, 0, 1, None, 11)),
       Member(<<"P", "U", "S", "H", "1", "2">>, Opcode(107, 0, 1, None, 12)),
       Member(<<"P", "U", "S", "H", "1", "3">>, Opcode(108, 0, 1, None, 13)),
       Member(<<"P", "U", "S", "H", "1", "4">>, Opcode(109, 0, 1, None, 14)),
       Member(<<"P", "U", "S", "H", "1", "5">>, Opcode(110, 0, 1, None, 15)),
       Member(<<"P", "U", "S", "H", "1", "6">>, Opcode(111, 0, 1, None, 16)),
       Member(<<"P", "U", "S", "H", "1", "7">>, Opcode(112, 0, 1, None, 17)),
       Member(<<"P", "U", "S", "H", "1", "8">>, Opcode(113, 0, 1, None, 18)),
       Member(<<"P", "U", "S", "H", "1", "9">>, Opcode(114, 0, 1, None, 19)),
       Member(<<"P", "U", "S", "H", "2", "0">>, Opcode(115, 0, 1, None, 20)),
       Member(<<"P", "U", "S", "H", "2", "1">>, Opcode(116, 0, 1, None, 21)),
       Member(<<"P", "U", "S", "H", "2", "2">>, Opcode(117, 0, 1, None, 22)),
       Member(<<"P", "U", "S", "H", "2", "3">>, Opcode(118, 0, 1, None, 23)),
       Member(<<"P", "U", "S", "H", "2", "4">>, Opcode(119, 0, 1, None, 24)),
       Member(<<"P", "U", "S", "H", "2", "5">>, Opcode(120, 0, 1, None, 25)),
       Member(<<"P", "U", "S", "H", "2", "6">>, Opcode(121, 0, 1, None, 26)),
       Member(<<"P", "U", "S", "H", "2", "7">>, Opcode(122, 0, 1, None, 27)),
       Member(<<"P", "U", "S", "H", "2", "8">>, Opcode(123, 0, 1, None, 28)),
       Member(<<"P", "U", "S", "H", "2", "9">>, Opcode(124, 0, 1, None, 29)),
       Member(<<"P", "U", "S", "H", "3", "0">>, Opcode(125, 0, 1, None, 30)),
       Member(<<"P", "U", "S", "H", "3", "1">>, Opcode(126, 0, 1, None, 31)),
       Member(<<"P", "U", "S", "H", "3", "2">>, Opcode(127, 0, 1, None, 32)),
       Member(<<"D", "U", "P", "1">>, Opcode(128, 0, 1, Some(1), 0)),
       Member(<<"D", "U", "P", "2">>, Opcode(129, 0, 1, Some(2), 0)),
       Member(<<"D", "U", "P", "3">>, Opcode(130, 0, 1, Some(3), 0)),
       Member(<<"D", "U", "P", "4">>, Opcode(131, 0, 1, Some(4), 0)),
       Member(<<"D", "U", "P", "5">>, Opcode(132, 0, 1, Some(5), 0)),
       Member(<<"D", "U", "P", "6">>, Opcode(133, 0, 1, Some(6), 0)),
       Member(<<"D", "U", "P", "7">>, Opcode(134, 0, 1, Some(7), 0)),
       Member(<<"D", "U", "P", "8">>, Opcode(135, 0, 1, Some(8), 0)),
       Member(<<"D", "U", "P", "9">>, Opcode(136, 0, 1, Some(9), 0)),
       Member(<<"D", "U", "P", "1", "0">>, Opcode(137, 0, 1, Some(10), 0)),
       Member(<<"D", "U", "P", "1", "1">>, Opcode(138, 0, 1, Some(11), 0)),
       Member(<<"D", "U", "P", "1", "2">>, Opcode(139, 0, 1, Some(12), 0)),
       Member(<<"D", "U", "P", "1", "3">>, Opcode(140, 0, 1, Some(13), 0)),
       Member(<<"D", "U", "P", "1", "4">>, Opcode(141, 0, 1, Some(14), 0)),
       Member(<<"D", "U", "P", "1", "5">>, Opcode(142, 0, 1, Some(15), 0)),
       Member(<<"D", "U", "P", "1", "6">>, Opcode(143, 0, 1, Some(16), 0)),
       Member(<<"S", "W", "A", "P", "1">>, Opcode(144, 0, 0, Some(2), 0)),
       Member(<<"S", "W", "A", "P", "2">>, Opcode(145, 0, 0, Some(3), 0)),
       Member(<<"S", "W", "A", "P", "3">>, Opcode(146, 0, 0, Some(4), 0)),
       Member(<<"S", "W", "A", "P", "4">>, Opcode(147, 0, 0, Some(5), 0)),
       Member(<<"S", "W", "A", "P", "5">>, Opcode(148, 0, 0, Some(6), 0)),
       Member(<<"S", "W", "A", "P", "6">>, Opcode(149, 0, 0, Some(7), 0)),
       Member(<<"S", "W", "A", "P", "7">>, Opcode(150, 0, 0, Some(8), 0)),
       Member(<<"S", "W", "A", "P", "8">>, Opcode(151, 0, 0, Some(9), 0)),
       Member(<<"S", "W", "A", "P", "9">>, Opcode(152, 0, 0, Some(10), 0)),
       Member(<<"S", "W", "A", "P", "1", "0">>, Opcode(153, 0, 0, Some(11), 0)),
       Member(<<"S", "W", "A", "P", "1", "1">>, Opcode(154, 0, 0, Some(12), 0)),
       Member(<<"S", "W", "A", "P", "1", "2">>, Opcode(155, 0, 0, Some(13), 0)),
       Member(<<"S", "W", "A", "P", "1", "3">>, Opcode(156, 0, 0, Some(14), 0)),
       Member(<<"S", "W", "A", "P", "1", "4">>, Opcode(157, 0, 0, Some(15), 0)),
       Member(<<"S", "W", "A", "P", "1", "5">>, Opcode(158, 0, 0, Some(16), 0)),
       Member(<<"S", "W", "A", "P", "1", "6">>, Opcode(159, 0, 0, Some(17), 0)),
       Member(<<"L", "O", "G", "0">>, Opcode(160, 2, 0, None, 0)),
       Member(<<"L", "O", "G", "1">>, Opcode(161, 3, 0, None, 0)),
       Member(<<"L", "O", "G", "2">>, Opcode(162, 4, 0, None, 0)),
       Member(<<"L", "O", "G", "3">>, Opcode(163, 5, 0, None, 0)),
       Member(<<"L", "O", "G", "4">>, Opcode(164, 6, 0, None, 0)),
       Member(<<"T", "L", "O", "A", "D">>, Opcode(179, 1, 1, None, 0)),
       Member(<<"T", "S", "T", "O", "R", "E">>, Opcode(180, 2, 0, None, 0)),
       Member(<<"C", "R", "E", "A", "T", "E">>, Opcode(240, 3, 1, None, 0)),
       Member(<<"C", "A", "L", "L">>, Opcode(241, 7, 1, None, 0)),
       Member(<<"C", "A", "L", "L", "C", "O", "D", "E">>, Opcode(242, 7, 1, None, 0)),
       Member(<<"R", "E", "T", "U", "R", "N">>, Opcode(243, 2, 0, None, 0)),
       Member(<<"D", "E", "L", "E", "G", "A", "T", "E", "C", "A", "L", "L">>, Opcode(244, 6, 1, None, 0)),
       Member(<<"C", "R", "E", "A", "T", "E", "2">>, Opcode(245, 4, 1, None, 0)),
       Member(<<"S", "T", "A", "T", "I", "C", "C", "A", "L", "L">>, Opcode(250, 6, 1, None, 0)),
       Member(<<"R", "E", "V", "E", "R", "T">>, Opcode(253, 2, 0, None, 0)),
       Member(<<"I", "N", "V", "A", "L", "I", "D">>, Opcode(254, 0, 0, None, 0)),
       Member(<<"S", "E", "L", "F", "D", "E", "S", "T", "R", "U", "C", "T">>, Opcode(255, 1, 0, None, 0))
    >>

\* OPCODES.<name>
OPCODES_(name) == OPCODES[CHOOSE i \in 1..Len(OPCODES) : OPCODES[i].name = name]

OPCODES_STOP == OPCODES_(<<"S", "T", "O", "P">>)
OPCODES_RETURN == OPCODES_(<<"R", "E", "T", "U", "R", "N">>)
OPCODES_REVERT == OPCODES_(<<"R", "E", "V", "E", "R", "T">>)
OPCODES_INVALID == OPCODES_(<<"I", "N", "V", "A", "L", "I", "D">>)
OPCODES_SELFDESTRUCT ==
    OPCODES_(<<"S", "E", "L", "F", "D", "E", "S", "T", "R", "U", "C", "T">>)
OPCODES_RETF == OPCODES_(<<"R", "E", "T", "F">>)
OPCODES_ORIGIN == OPCODES_(<<"O", "R", "I", "G", "I", "N">>)
OPCODES_JUMPDEST == OPCODES_(<<"J", "U", "M", "P", "D", "E", "S", "T">>)
OPCODES_PUSH0 == OPCODES_(<<"P", "U", "S", "H", "0">>)
OPCODES_RJUMP == OPCODES_(<<"R", "J", "U", "M", "P">>)
OPCODES_RJUMPI == OPCODES_(<<"R", "J", "U", "M", "P", "I">>)

\* "".join of a str given as characters: the str as a name
RECURSIVE Join(_)
Join(s) == IF s = << >> THEN "" ELSE Head(s) \o Join(Tail(s))

UpperChars == <<"A", "B", "C", "D", "E", "F", "G", "H", "I", "J", "K", "L", "M",
                "N", "O", "P", "Q", "R", "S", "T", "U", "V", "W", "X", "Y", "Z">>
LowerChars == <<"a", "b", "c", "d", "e", "f", "g", "h", "i", "j", "k", "l", "m",
                "n", "o", "p", "q", "r", "s", "t", "u", "v", "w", "x", "y", "z">>

\* str.lower
lower(s) ==
    [i \in 1..Len(s) |->
        IF \E k \in 1..26 : UpperChars[k] = s[i]
        THEN LowerChars[CHOOSE k \in 1..26 : UpperChars[k] = s[i]]
        ELSE s[i]]

\* bytes.hex
RECURSIVE hex(_)
hex(b) ==
    IF b = << >> THEN ""
    ELSE HexChars[(Head(b) \div 16) + 1] \o HexChars[(Head(b) % 16) + 1]
         \o hex(Tail(b))

\* int.to_bytes(length, byteorder="little", signed=True)
to_bytes_signed_little_endian(n, length) ==
    IF n < -((256 ^ length) \div 2) \/ n >= (256 ^ length) \div 2
    THEN Raise("OverflowError")
    ELSE to_bytes_wrapping((IF n < 0 THEN n + 256 ^ length ELSE n) * 256
                           + ((IF n < 0 THEN n + 256 ^ length ELSE n) \div 256),
                           length)

\* int.to_bytes(length, byteorder="big", signed=True)
to_bytes_signed(n, length) ==
    IF n < -((256 ^ length) \div 2) \/ n >= (256 ^ length) \div 2
    THEN Raise("OverflowError")
    ELSE to_bytes(IF n < 0 THEN n + 256 ^ length ELSE n, length)

\* relative_jump
relative_jump(relative_offset, conditional) ==
    LET relative_offset_bytes == to_bytes_signed(relative_offset, 2)
    IN  IF conditional
        THEN Cat(Ok(OPCODES_RJUMPI.byte), relative_offset_bytes)
        ELSE Cat(Ok(OPCODES_RJUMP.byte), relative_offset_bytes)

\* the list literal ALL_VALID_CONTAINERS is bound to
INITIAL_VALID_CONTAINERS ==
    <<
       Container(<<Section(SectionKind.CODE, Str(<<"0", "x", "0", "0">>), None)>>,
                 None, None, None, None,
                 Some("single_code_section")),
       Container(<<Section(SectionKind.CODE, Str(<<"0", "x", "0", "0">>), None),
                   Section(SectionKind.DATA, Str(<<"0", "x", "0", "0">>), None)>>,
                 None, None, None, None,
                 Some("single_code_single_data_section"))
    >>

\* the list literal ALL_INVALID_CONTAINERS is bound to
INITIAL_INVALID_CONTAINERS ==
    <<
       Code(Some(fromhex(<<"E", "F">>).val), Some("incomplete_magic")),
       Code(Some(fromhex(<<"E", "F", "0", "0">>).val), Some("no_version")),
       Container(<<Section(SectionKind.CODE, Str(<<"0", "x", "0", "0">>), None)>>,
                 Some(1), None, None, None,
                 Some("invalid_magic_01")),
       Container(<<Section(SectionKind.CODE, Str(<<"0", "x", "0", "0">>), None)>>,
                 Some(255), None, None, None,
                 Some("invalid_magic_ff")),
       Container(<<Section(SectionKind.CODE, Str(<<"0", "x", "0", "0">>), None)>>,
                 None, Some(0), None, None,
                 Some("invalid_version_zero")),
       Container(<<Section(SectionKind.CODE, Str(<<"0", "x", "0", "0">>), None)>>,
                 None, Some(LATEST_EOF_VERSION + 1), None, None,
                 Some("invalid_version_low")),
       Container(<<Section(SectionKind.CODE, Str(<<"0", "x", "0", "0">>), None)>>,
                 None, Some(255), None, None,
                 Some("invalid_version_high")),
       Code(Some(fromhex(<<"E", "F", "0", "0", "0", "1">>).val), Some("no_version")),
       Container(<< >>,
                 None, None, None, None,
                 Some("no_sections")),
       Code(Some(fromhex(<<"E", "F", "0", "0", "0", "1", "0", "1">>).val), Some("no_code_section_size")),
       Container(<<Section(SectionKind.DATA, Str(<<"0", "x", "0", "0">>), None)>>,
                 None, None, None, None,
                 Some("no_code_section")),
       Code(Some(fromhex(<<"E", "F", "0", "0", "0", "1", "0", "1", "0", "0">>).val), Some("code_section_size_incomplete")),
       Container(<<Section(SectionKind.CODE, Str(<<"0", "x">>), Some(3))>>,
                 None, None, Some(<< >>), None,
                 Some("no_section_terminator_1")),
       Container(<<Section(SectionKind.CODE, Str(<<"0", "x", "6", "0", "0", "0", "0", "0">>), None)>>,
                 None, None, Some(<< >>), None,
                 Some("no_section_terminator_2")),
       Container(<<Section(SectionKind.CODE, Str(<<"0", "x">>), Some(1))>>,
                 None, None, None, None,
                 Some("no_code_section_contents")),
       Container(<<Section(SectionKind.CODE, Str(<<"0", "x", "0", "0">>), Some(2))>>,
                 None, None, None, None,
                 Some("incomplete_code_section_contents")),
       Container(<<Section(SectionKind.CODE, Str(<<"0", "x", "0", "0">>), Some(2))>>,
                 None, None, None, None,
                 Some("incomplete_code_section_contents")),
       Container(<<Section(SectionKind.CODE, Str(<<"0", "x", "6", "0", "0", "0", "0", "0">>), None)>>,
                 None, None, None, Some(fromhex(<<"d", "e", "a", "d", "b", "e", "e", "f">>).val),
                 Some("trailing_bytes_after_code_section")),
       Container(<<Section(SectionKind.CODE, Str(<<"0", "x", "6", "0", "0", "0", "0", "0">>), None),
                   Section(SectionKind.CODE, Str(<<"0", "x", "6", "0", "0", "0", "0", "0">>), None)>>,
                 None, None, None, None,
                 Some("multiple_code_sections")),
       Container(<<Section(SectionKind.CODE, Str(<<"0", "x", "6", "0", "0", "0", "0", "0">>), None),
                   Section(SectionKind.CODE, Str(<<"0", "x", "6", "0", "0", "0", "0", "0">>), None)>>,
                 None, None, None, None,
                 Some("code_sections_above_1024")),
       Container(<<Section(SectionKind.CODE, Str(<<"0", "x">>), None)>>,
                 None, None, None, None,
                 Some("empty_code_section")),
       Container(<<Section(SectionKind.CODE, Str(<<"0", "x">>), None),
                   Section(SectionKind.DATA, Str(<<"0", "x", "D", "E", "A", "D", "B", "E", "E", "F">>), None)>>,
                 None, None, None, None,
                 Some("empty_code_section_with_non_empty_data")),
       Container(<<Section(SectionKind.DATA, Str(<<"0", "x", "D", "E", "A", "D", "B", "E", "E", "F">>), None),
                   Section(SectionKind.CODE, Str(<<"0", "x", "0", "0">>), None)>>,
                 None, None, None, None,
                 Some("data_section_preceding_code_section")),
       Container(<<Section(SectionKind.DATA, Str(<<"0", "x", "D", "E", "A", "D", "B", "E", "E", "F">>), None)>>,
                 None, None, None, None,
                 Some("data_section_without_code_section")),
       Code(Some(fromhex(<<"E", "F", "0", "0", "0", "1", "0", "1", "0", "0", "0", "2", "0", "2">>).val), Some("no_data_section_size")),
       Code(Some(fromhex(<<"E", "F", "0", "0", "0", "1", "0", "1", "0", "0", "0", "2", "0", "2", "0", "0">>).val), Some("data_section_size_incomplete")),
       Container(<<Section(SectionKind.CODE, Str(<<"0", "x", "0", "2", "0", "0", "0", "4">>), None)>>,
                 None, None, Some(<< >>), None,
                 Some("no_section_terminator_3")),
       Container(<<Section(SectionKind.CODE, Str(<<"0", "x", "6", "0", "0", "0", "0", "0">>), None),
                   Section(SectionKind.DATA, Str(<<"0", "x", "A", "A", "B", "B", "C", "C", "D", "D">>), None)>>,
                 None, None, Some(<< >>), None,
                 Some("no_section_terminator_4")),
       Container(<<Section(SectionKind.CODE, Str(<<"0", "x", "6", "0", "0", "0", "0", "0">>), None),
                   Section(SectionKind.DATA, Str(<< >>), Some(1))>>,
                 None, None, None, None,
                 Some("no_data_section_contents")),
       Container(<<Section(SectionKind.CODE, Str(<<"0", "x", "6", "0", "0", "0", "0", "0">>), None),
                   Section(SectionKind.DATA, Str(<<"0", "x", "A", "A", "B", "B", "C", "C">>), Some(4))>>,
                 None, None, None, None,
                 Some("data_section_contents_incomplete")),
       Container(<<Section(SectionKind.CODE, Str(<<"0", "x", "6", "0", "0", "0", "0", "0">>), None),
                   Section(SectionKind.DATA, Str(<<"0", "x", "A", "A", "B", "B", "C", "C", "D", "D">>), None)>>,
                 None, None, None, Some(fromhex(<<"e", "e">>).val),
                 Some("trailing_bytes_after_data_section")),
       Container(<<Section(SectionKind.CODE, Str(<<"0", "x", "6", "0", "0", "0", "0", "0">>), None),
                   Section(SectionKind.DATA, Str(<<"0", "x", "A", "A", "B", "B", "C", "C">>), None),
                   Section(SectionKind.DATA, Str(<<"0", "x", "A", "A", "B", "B", "C", "C">>), None)>>,
                 None, None, None, None,
                 Some("multiple_data_sections")),
       Container(<<Section(SectionKind.CODE, Str(<<"0", "x", "0", "0">>), None),
                   Section(SectionKind.CODE, Str(<<"0", "x", "0", "0">>), None),
                   Section(SectionKind.DATA, Str(<<"0", "x", "A", "A">>), None),
                   Section(SectionKind.DATA, Str(<<"0", "x", "A", "A">>), None)>>,
                 None, None, None, None,
                 Some("multiple_code_and_data_sections_1")),
       Container(<<Section(SectionKind.CODE, Str(<<"0", "x", "0", "0">>), None),
                   Section(SectionKind.DATA, Str(<<"0", "x", "A", "A">>), None),
                   Section(SectionKind.CODE, Str(<<"0", "x", "0", "0">>), None),
                   Section(SectionKind.DATA, Str(<<"0", "x", "A", "A">>), None)>>,
                 None, None, None, None,
                 Some("multiple_code_and_data_sections_2")),
       Container(<<Section(SectionKind.CODE, Str(<<"0", "x", "0", "0">>), None),
                   Section(SectionKind.DATA, Str(<<"0", "x">>), None)>>,
                 None, None, None, None,
                 Some("empty_data_section")),
       Container(<<Section(SectionKind.CODE, Str(<<"0", "x", "0", "0">>), None),
                   Section(VERSION_MAX_SECTION_KIND + 1, Str(<<"0", "x", "0", "1">>), None)>>,
                 None, None, None, None,
                 Some("unknown_section_1")),
       Container(<<Section(VERSION_MAX_SECTION_KIND + 1, Str(<<"0", "x", "0", "1">>), None),
                   Section(SectionKind.CODE, Str(<<"0", "x", "0", "0">>), None)>>,
                 None, None, None, None,
                 Some("unknown_section_2")),
       Container(<<Section(SectionKind.CODE, Str(<<"0", "x", "0", "0">>), None),
                   Section(VERSION_MAX_SECTION_KIND + 1, Str(<<"0", "x">>), None)>>,
                 None, None, None, None,
                 Some("empty_unknown_section_2"))
    >>

VALID_TERMINATING_OPCODES ==
    <<OPCODES_STOP, OPCODES_RETURN, OPCODES_REVERT, OPCODES_INVALID,
      OPCODES_SELFDESTRUCT>>
    \o (IF In(EIP_EOF_FUNCTIONS, V1_EOF_EIPS) THEN <<OPCODES_RETF>> ELSE << >>)

\* range(n) as a list
range(n) == [i \in 1..n |-> i - 1]

\* bytes * n
RECURSIVE Repeat(_, _)
Repeat(b, n) == IF n <= 0 THEN << >> ELSE b \o Repeat(b, n - 1)

\* the body of the loop over VALID_TERMINATING_OPCODES
ValidTerminatingContainer(valid_opcode) ==
    LET test_bytecode ==
            (IF valid_opcode.min_stack_height > 0
             THEN Repeat(OPCODES_ORIGIN.byte, valid_opcode.min_stack_height)
             ELSE << >>)
            \o valid_opcode.byte
    IN  Container(<<Section(SectionKind.CODE, Bytes(test_bytecode), None),
                    Section(SectionKind.DATA, Str(<<"0", "x", "0", "0">>), None)>>,
                  None, None, None, None,
                  Some("valid_terminating_opcode_" \o Join(lower(valid_opcode.name))))

\* every byte value, a valid terminating opcode or not
INVALID_TERMINATING_OPCODES_unfiltered ==
    [k \in 1..256 |-> <<range(256)[k]>>]

\* [x.byte_int for x in VALID_TERMINATING_OPCODES]
VALID_TERMINATING_BYTE_INTS ==
    [k \in 1..Len(VALID_TERMINATING_OPCODES) |->
        VALID_TERMINATING_OPCODES[k].byte_int]

\* the i in range(256) that the comprehension keeps
INVALID_TERMINATING_INTS ==
    SelectSeq(range(256), LAMBDA i : ~In(i, VALID_TERMINATING_BYTE_INTS))

INVALID_TERMINATING_OPCODES ==
    [k \in 1..Len(INVALID_TERMINATING_INTS) |-> <<INVALID_TERMINATING_INTS[k]>>]

\* the body of the loop over INVALID_TERMINATING_OPCODES
InvalidTerminatingContainer(invalid_opcode) ==
    Container(<<Section(SectionKind.CODE, Bytes(invalid_opcode), None),
                Section(SectionKind.DATA, Str(<<"0", "x", "0", "0">>), None)>>,
              None, None, None, None,
              Some("invalid_terminating_opcode_0x" \o hex(invalid_opcode)))

\* [x.byte_int for x in OPCODES]
OPCODES_BYTE_INTS == [k \in 1..Len(OPCODES) |-> OPCODES[k].byte_int]

\* the i in range(256) that the comprehension keeps
INVALID_OPCODE_INTS ==
    SelectSeq(range(256), LAMBDA i : ~In(i, OPCODES_BYTE_INTS))

INVALID_OPCODES ==
    [k \in 1..Len(INVALID_OPCODE_INTS) |-> <<INVALID_OPCODE_INTS[k]>>]

\* the body of the loop over INVALID_OPCODES without the terminating STOP
InvalidOpcodeContainer_without_stop(invalid_opcode) ==
    Container(<<Section(SectionKind.CODE, Bytes(invalid_opcode), None),
                Section(SectionKind.DATA, Str(<<"0", "x", "0", "0">>), None)>>,
              None, None, None, None,
              Some("invalid_terminating_opcode_0x" \o hex(invalid_opcode)))

\* the body of the loop over INVALID_OPCODES
InvalidOpcodeContainer(invalid_opcode) ==
    Container(<<Section(SectionKind.CODE,
                        Bytes(invalid_opcode \o OPCODES_STOP.byte), None),
                Section(SectionKind.DATA, Str(<<"0", "x", "0", "0">>), None)>>,
              None, None, None, None,
              Some("invalid_terminating_opcode_0x" \o hex(invalid_opcode)))

\* the opcodes with an immediate of more than one byte only
VALID_DATA_PORTION_OPCODES_longer_than_one ==
    SelectSeq(OPCODES, LAMBDA op : op.data_portion_length > 1)

VALID_DATA_PORTION_OPCODES ==
    SelectSeq(OPCODES, LAMBDA op : op.data_portion_length > 0)

\* the body of the loop over VALID_DATA_PORTION_OPCODES: the containers one
\* iteration appends, in order
DataPortionContainers(data_portion_opcode) ==
    LET data == Section(SectionKind.DATA, Str(<<"0", "x", "0", "0">>), None)
        prefix == "valid_truncated_opcode_" \o Join(data_portion_opcode.name) \o "_"
    IN  <<Container(<<Section(SectionKind.CODE,
                              Bytes(data_portion_opcode.byte), None),
                      data>>,
                    None, None, None, None, Some(prefix \o "no_data"))>>
        \o (IF data_portion_opcode.data_portion_length > 1
            THEN <<Container(<<Section(SectionKind.CODE,
                                       Bytes(data_portion_opcode.byte
                                             \o OPCODES_STOP.byte), None),
                               data>>,
                             None, None, None, None, Some(prefix \o "one_byte"))>>
            ELSE << >>)
        \o <<Container(<<Section(SectionKind.CODE,
                                 Bytes(data_portion_opcode.byte
                                       \o Repeat(OPCODES_STOP.byte,
                                                 data_portion_opcode.data_portion_length)),
                                 None),
                         data>>,
                       None, None, None, None, Some(prefix \o "terminating"))>>

valid_codes ==
    << <<relative_jump(0, FALSE).val \o OPCODES_STOP.byte,
         "zero_relative_jump">>,
       <<relative_jump(-3, FALSE).val \o OPCODES_STOP.byte,
         "minus_three_relative_jump">>,
       <<relative_jump(1, FALSE).val \o OPCODES_STOP.byte
            \o OPCODES_JUMPDEST.byte \o OPCODES_STOP.byte,
         "one_relative_jump_to_jumpdest">>,
       <<relative_jump(1, FALSE).val \o OPCODES_STOP.byte \o OPCODES_STOP.byte,
         "one_relative_jump_to_stop">> >>

invalid_codes ==
    << <<relative_jump(-1, FALSE).val \o OPCODES_STOP.byte,
         "minus_one_relative_jump">>,
       <<relative_jump(-2, FALSE).val \o OPCODES_STOP.byte,
         "minus_two_relative_jump">>,
       <<relative_jump(1, FALSE).val \o OPCODES_PUSH0.byte
            \o OPCODES_STOP.byte \o OPCODES_STOP.byte,
         "one_relative_jump_to_push_data">>,
       <<relative_jump(1, FALSE).val \o OPCODES_STOP.byte,
         "one_relative_jump_outside_of_code">>,
       <<relative_jump(-4, FALSE).val \o OPCODES_STOP.byte,
         "minus_4_relative_jump_outside_of_code">> >>

\* the body of the loops over valid_codes and over invalid_codes
RjumpContainer(rjump_code) ==
    Container(<<Section(SectionKind.CODE, Bytes(rjump_code[1]), None),
                Section(SectionKind.DATA, Str(<<"0", "x", "0", "0">>), None)>>,
              None, None, None, None,
              Some("valid_rjump_" \o rjump_code[2]))

----------------------------------------------------------------------------
(* Fixture generation: the module-level statements of fillers/eof/v1.py    *)
(* run in order; every iteration of a module-level loop is one step.       *)

\* the loops in program order, each with the list it iterates over
Loops ==
    (IF In(EIP_CODE_VALIDATION, V1_EOF_EIPS)
     THEN <<"valid_terminating", "invalid_terminating", "invalid_opcodes",
            "data_portion">>
          \o (IF In(EIP_STATIC_RELATIVE_JUMPS, V1_EOF_EIPS)
              THEN <<"valid_codes", "invalid_codes">>
              ELSE << >>)
     ELSE << >>)
    \o <<"done">>

LoopList(loop) ==
    CASE loop = "valid_terminating" -> VALID_TERMINATING_OPCODES
      [] loop = "invalid_terminating" -> INVALID_TERMINATING_OPCODES
      [] loop = "invalid_opcodes" -> INVALID_OPCODES
      [] loop = "data_portion" -> VALID_DATA_PORTION_OPCODES
      [] loop = "valid_codes" -> valid_codes
      [] loop = "invalid_codes" -> invalid_codes
      [] OTHER -> << >>

\* the loop that follows `loop`
LoopAfter(loop) == Loops[(CHOOSE k \in 1..Len(Loops) : Loops[k] = loop) + 1]

InitFixtures ==
    /\ pc = Loops[1]
    /\ idx = 1
    /\ ALL_VALID_CONTAINERS = INITIAL_VALID_CONTAINERS
    /\ ALL_INVALID_CONTAINERS = INITIAL_INVALID_CONTAINERS
    /\ container = NestedInput
    /\ result = None
    /\ code = NoneData
    /\ initcode = None
    /\ enabled_eips = V1_EOF_EIPS
    /\ NoOperands /\ NoGenerator /\ NoTool

\* Each iteration of a module-level loop appends to one of the two lists.

\* for valid_opcode in VALID_TERMINATING_OPCODES
AppendValidTerminating ==
    /\ pc = "valid_terminating"
    /\ idx <= Len(VALID_TERMINATING_OPCODES)
    /\ ALL_VALID_CONTAINERS' =
           ALL_VALID_CONTAINERS \o <<ValidTerminatingContainer(VALID_TERMINATING_OPCODES[idx])>>
    /\ idx' = idx + 1
    /\ UNCHANGED <<pc, ALL_INVALID_CONTAINERS, container, result, code, initcode,
                   enabled_eips>>
    /\ UNCHANGED <<operand_vars, generator_vars, tool_vars>>

\* for invalid_opcode in INVALID_TERMINATING_OPCODES
AppendInvalidTerminating ==
    /\ pc = "invalid_terminating"
    /\ idx <= Len(INVALID_TERMINATING_OPCODES)
    /\ ALL_INVALID_CONTAINERS' =
           ALL_INVALID_CONTAINERS \o <<InvalidTerminatingContainer(INVALID_TERMINATING_OPCODES[idx])>>
    /\ idx' = idx + 1
    /\ UNCHANGED <<pc, ALL_VALID_CONTAINERS, container, result, code, initcode,
                   enabled_eips>>
    /\ UNCHANGED <<operand_vars, generator_vars, tool_vars>>

\* for invalid_opcode in INVALID_OPCODES
AppendInvalidOpcode ==
    /\ pc = "invalid_opcodes"
    /\ idx <= Len(INVALID_OPCODES)
    /\ ALL_INVALID_CONTAINERS' =
           ALL_INVALID_CONTAINERS \o <<InvalidOpcodeContainer(INVALID_OPCODES[idx])>>
    /\ idx' = idx + 1
    /\ UNCHANGED <<pc, ALL_VALID_CONTAINERS, container, result, code, initcode,
                   enabled_eips>>
    /\ UNCHANGED <<operand_vars, generator_vars, tool_vars>>

\* for data_portion_opcode in VALID_DATA_PORTION_OPCODES
AppendDataPortion ==
    /\ pc = "data_portion"
    /\ idx <= Len(VALID_DATA_PORTION_OPCODES)
    /\ ALL_INVALID_CONTAINERS' =
           ALL_INVALID_CONTAINERS \o DataPortionContainers(VALID_DATA_PORTION_OPCODES[idx])
    /\ idx' = idx + 1
    /\ UNCHANGED <<pc, ALL_VALID_CONTAINERS, container, result, code, initcode,
                   enabled_eips>>
    /\ UNCHANGED <<operand_vars, generator_vars, tool_vars>>

\* for valid_code in valid_codes
AppendValidCode ==
    /\ pc = "valid_codes"
    /\ idx <= Len(valid_codes)
    /\ ALL_VALID_CONTAINERS' =
           ALL_VALID_CONTAINERS \o <<RjumpContainer(valid_codes[idx])>>
    /\ idx' = idx + 1
    /\ UNCHANGED <<pc, ALL_INVALID_CONTAINERS, container, result, code, initcode,
                   enabled_eips>>
    /\ UNCHANGED <<operand_vars, generator_vars, tool_vars>>

\* for invalid_code in invalid_codes
AppendInvalidCode ==
    /\ pc = "invalid_codes"
    /\ idx <= Len(invalid_codes)
    /\ ALL_INVALID_CONTAINERS' =
           ALL_INVALID_CONTAINERS \o <<RjumpContainer(invalid_codes[idx])>>
    /\ idx' = idx + 1
    /\ UNCHANGED <<pc, ALL_VALID_CONTAINERS, container, result, code, initcode,
                   enabled_eips>>
    /\ UNCHANGED <<operand_vars, generator_vars, tool_vars>>

\* a loop whose list is exhausted is left for the next statement
LoopExit ==
    /\ pc # "done"
    /\ idx > Len(LoopList(pc))
    /\ pc' = LoopAfter(pc)
    /\ idx' = 1
    /\ UNCHANGED <<ALL_VALID_CONTAINERS, ALL_INVALID_CONTAINERS,
                   container, result, code, initcode,
                   enabled_eips>>
    /\ UNCHANGED <<operand_vars, generator_vars, tool_vars>>

NextFixtures ==
    \/ AppendValidTerminating
    \/ AppendInvalidTerminating
    \/ AppendInvalidOpcode
    \/ AppendDataPortion
    \/ AppendValidCode
    \/ AppendInvalidCode
    \/ LoopExit

SpecFixtures == InitFixtures /\ [][NextFixtures]_vars

----------------------------------------------------------------------------
(* fillers/eof/v1.py run with an edited V1_EOF_EIPS: the module-level      *)
(* statements read the list, every for statement is one step.              *)

\* the list with the elements of the set S in ascending order
RECURSIVE AscendingList(_)
AscendingList(S) ==
    IF S = {} THEN << >>
    ELSE LET least == CHOOSE x \in S : \A y \in S : x <= y
         IN  <<least>> \o AscendingList(S \ {least})

\* the lists V1_EOF_EIPS can be edited to
EipListInputs ==
    { AscendingList(S) :
        S \in SUBSET {EIP_EOF, EIP_CODE_VALIDATION, EIP_STATIC_RELATIVE_JUMPS,
                      EIP_EOF_FUNCTIONS, EIP_EOF_STACK_VALIDATION} }

\* VALID_TERMINATING_OPCODES that appends RETF whatever the list holds
VALID_TERMINATING_OPCODES_always_retf(eips) ==
    <<OPCODES_STOP, OPCODES_RETURN, OPCODES_REVERT, OPCODES_INVALID,
      OPCODES_SELFDESTRUCT, OPCODES_RETF>>

\* VALID_TERMINATING_OPCODES when V1_EOF_EIPS is the list eips
VALID_TERMINATING_OPCODES_under(eips) ==
    <<OPCODES_STOP, OPCODES_RETURN, OPCODES_REVERT, OPCODES_INVALID,
      OPCODES_SELFDESTRUCT>>
    \o (IF In(EIP_EOF_FUNCTIONS, eips) THEN <<OPCODES_RETF>> ELSE << >>)

\* INVALID_TERMINATING_OPCODES when V1_EOF_EIPS is the list eips
INVALID_TERMINATING_OPCODES_under(eips) ==
    LET terminating == VALID_TERMINATING_OPCODES_under(eips)
        valid_bytes == [k \in 1..Len(terminating) |-> terminating[k].byte_int]
        kept == SelectSeq(range(256), LAMBDA i : ~In(i, valid_bytes))
    IN  [k \in 1..Len(kept) |-> <<kept[k]>>]

\* the for statements that run when V1_EOF_EIPS is the list eips, in order
Loops_under(eips) ==
    (IF In(EIP_CODE_VALIDATION, eips)
     THEN <<"valid_terminating", "invalid_terminating", "invalid_opcodes",
            "data_portion">>
          \o (IF In(EIP_STATIC_RELATIVE_JUMPS, eips)
              THEN <<"valid_codes", "invalid_codes">>
              ELSE << >>)
     ELSE << >>)
    \o <<"done">>

\* the statement that follows the for statement `loop`
LoopAfter_under(eips, loop) ==
    Loops_under(eips)[(CHOOSE k \in 1..Len(Loops_under(eips)) :
                           Loops_under(eips)[k] = loop) + 1]

\* the concatenation of the lists of a list
RECURSIVE Flatten(_)
Flatten(lists) ==
    IF lists = << >> THEN << >> ELSE Head(lists) \o Flatten(Tail(lists))

InitFlags ==
    /\ enabled_eips \in EipListInputs
    /\ pc = Loops_under(enabled_eips)[1]
    /\ idx = 1
    /\ ALL_VALID_CONTAINERS = INITIAL_VALID_CONTAINERS
    /\ ALL_INVALID_CONTAINERS = INITIAL_INVALID_CONTAINERS
    /\ container = NestedInput
    /\ result = None
    /\ code = NoneData
    /\ initcode = None
    /\ NoOperands /\ NoGenerator /\ NoTool

\* for valid_opcode in VALID_TERMINATING_OPCODES, all iterations
RunValidTerminating ==
    /\ pc = "valid_terminating"
    /\ ALL_VALID_CONTAINERS' =
           ALL_VALID_CONTAINERS
           \o [k \in 1..Len(VALID_TERMINATING_OPCODES_under(enabled_eips)) |->
                  ValidTerminatingContainer(
                      VALID_TERMINATING_OPCODES_under(enabled_eips)[k])]
    /\ pc' = LoopAfter_under(enabled_eips, pc)
    /\ UNCHANGED <<ALL_INVALID_CONTAINERS, idx, container, result, code,
                   initcode, enabled_eips>>
    /\ UNCHANGED <<operand_vars, generator_vars, tool_vars>>

\* for invalid_opcode in INVALID_TERMINATING_OPCODES, all iterations
RunInvalidTerminating ==
    /\ pc = "invalid_terminating"
    /\ ALL_INVALID_CONTAINERS' =
           ALL_INVALID_CONTAINERS
           \o [k \in 1..Len(INVALID_TERMINATING_OPCODES_under(enabled_eips)) |->
                  InvalidTerminatingContainer(
                      INVALID_TERMINATING_OPCODES_under(enabled_eips)[k])]
    /\ pc' = LoopAfter_under(enabled_eips, pc)
    /\ UNCHANGED <<ALL_VALID_CONTAINERS, idx, container, result, code,
                   initcode, enabled_eips>>
    /\ UNCHANGED <<operand_vars, generator_vars, tool_vars>>

\* for invalid_opcode in INVALID_OPCODES, all iterations
RunInvalidOpcodes ==
    /\ pc = "invalid_opcodes"
    /\ ALL_INVALID_CONTAINERS' =
           ALL_INVALID_CONTAINERS
           \o [k \in 1..Len(INVALID_OPCODES) |->
                  InvalidOpcodeContainer(INVALID_OPCODES[k])]
    /\ pc' = LoopAfter_under(enabled_eips, pc)
    /\ UNCHANGED <<ALL_VALID_CONTAINERS, idx, container, result, code,
                   initcode, enabled_eips>>
    /\ UNCHANGED <<operand_vars, generator_vars, tool_vars>>

\* for data_portion_opcode in VALID_DATA_PORTION_OPCODES, all iterations
RunDataPortion ==
    /\ pc = "data_portion"
    /\ ALL_INVALID_CONTAINERS' =
           ALL_INVALID_CONTAINERS
           \o Flatten([k \in 1..Len(VALID_DATA_PORTION_OPCODES) |->
                          DataPortionContainers(VALID_DATA_PORTION_OPCODES[k])])
    /\ pc' = LoopAfter_under(enabled_eips, pc)
    /\ UNCHANGED <<ALL_VALID_CONTAINERS, idx, container, result, code,
                   initcode, enabled_eips>>
    /\ UNCHANGED <<operand_vars, generator_vars, tool_vars>>

\* for valid_code in valid_codes, all iterations
RunValidCodes ==
    /\ pc = "valid_codes"
    /\ ALL_VALID_CONTAINERS' =
           ALL_VALID_CONTAINERS
           \o [k \in 1..Len(valid_codes) |-> RjumpContainer(valid_codes[k])]
    /\ pc' = LoopAfter_under(enabled_eips, pc)
    /\ UNCHANGED <<ALL_INVALID_CONTAINERS, idx, container, result, code,
                   initcode, enabled_eips>>
    /\ UNCHANGED <<operand_vars, generator_vars, tool_vars>>

\* for invalid_code in invalid_codes, all iterations
RunInvalidCodes ==
    /\ pc = "invalid_codes"
    /\ ALL_INVALID_CONTAINERS' =
           ALL_INVALID_CONTAINERS
           \o [k \in 1..Len(invalid_codes) |-> RjumpContainer(invalid_codes[k])]
    /\ pc' = LoopAfter_under(enabled_eips, pc)
    /\ UNCHANGED <<ALL_VALID_CONTAINERS, idx, container, result, code,
                   initcode, enabled_eips>>
    /\ UNCHANGED <<operand_vars, generator_vars, tool_vars>>

NextFlags ==
    \/ RunValidTerminating
    \/ RunInvalidTerminating
    \/ RunInvalidOpcodes
    \/ RunDataPortion
    \/ RunValidCodes
    \/ RunInvalidCodes

SpecFlags == InitFlags /\ [][NextFlags]_vars

----------------------------------------------------------------------------
(* Properties of the serializer                                            *)

Returned == pc = "assembled" /\ result[1].ok

MagicByteOf(c) == IF c.custom_magic = None THEN 0 ELSE c.custom_magic[1]
VersionByteOf(c) == IF c.custom_version = None THEN 1 ELSE c.custom_version[1]
TerminatorOf(c) ==
    IF c.custom_terminator = None THEN <<0>> ELSE c.custom_terminator[1]
ExtraOf(c) == IF c.extra = None THEN << >> ELSE c.extra[1]
BodyOf(s) == IF s.data.type = "None" THEN << >> ELSE code_to_bytes(s.data).val

\* total length of the bodies of the first k sections
RECURSIVE BodiesLen(_, _)
BodiesLen(ss, k) ==
    IF k = 0 THEN 0 ELSE BodiesLen(ss, k - 1) + Len(BodyOf(ss[k]))

\* the size the header of section s announces
HeaderSizeOf(s) ==
    IF s.custom_size # None THEN s.custom_size[1] ELSE Len(BodyOf(s))

Canonical(c) ==
    [c EXCEPT !.custom_magic = None, !.custom_version = None,
              !.custom_terminator = None, !.extra = None]

\* C1: whenever Container.assemble returns, its output is, byte position by
\* byte position: 0xEF; the magic byte (custom_magic or 0x00); the version
\* byte (custom_version or 0x01); for the i-th section the three bytes kind,
\* size high, size low (custom_size or the data length) at positions
\* 3i+1..3i+3; the terminator (custom_terminator or 00); the bodies in list
\* order; the extra bytes; and nothing else (the total length is the sum).
C1_AssembleLayout ==
    Returned =>
        LET out == result[1].val
            ss == container.sections
            n == Len(ss)
            term == TerminatorOf(container)
            extra == ExtraOf(container)
            bodyStart(i) == 3 + 3 * n + Len(term) + BodiesLen(ss, i - 1)
        IN  /\ Len(out) = 3 + 3 * n + Len(term) + BodiesLen(ss, n) + Len(extra)
            /\ out[1] = 239
            /\ out[2] = MagicByteOf(container)
            /\ out[3] = VersionByteOf(container)
            /\ \A i \in 1..n :
                  /\ out[3 * i + 1] = ss[i].kind
                  /\ 256 * out[3 * i + 2] + out[3 * i + 3] = HeaderSizeOf(ss[i])
            /\ SubSeq(out, 3 * n + 4, 3 * n + 3 + Len(term)) = term
            /\ \A i \in 1..n :
                  SubSeq(out, bodyStart(i) + 1, bodyStart(i + 1)) = BodyOf(ss[i])
            /\ SubSeq(out, Len(out) - Len(extra) + 1, Len(out)) = extra

C1_Witness ==
    /\ Returned
    /\ Len(container.sections) = 2
    /\ BodyOf(container.sections[1]) # BodyOf(container.sections[2])
    /\ BodyOf(container.sections[2]) # << >>
    /\ container.sections[1].custom_size # None
    /\ container.custom_magic # None
    /\ container.custom_terminator = Some(<<255, 1>>)
    /\ container.extra # None

\* a container Container.assemble can serialize: the overrides fit one byte,
\* every kind fits one byte, every section has a declared size or data, the
\* data converts to bytes, and the header size fits two bytes
Serializable(c) ==
    /\ c.custom_magic # None => c.custom_magic[1] \in 0..255
    /\ c.custom_version # None => c.custom_version[1] \in 0..255
    /\ \A i \in 1..Len(c.sections) :
          LET s == c.sections[i]
          IN  /\ s.kind \in 0..255
              /\ s.custom_size = None => s.data.type # "None"
              /\ s.data.type # "None" => code_to_bytes(s.data).ok
              /\ s.custom_size # None => s.custom_size[1] \in 0..65535
              /\ (s.custom_size = None /\ s.data.type # "None"
                    /\ code_to_bytes(s.data).ok)
                 => Len(code_to_bytes(s.data).val) \in 0..65535

C3_HeaderWithoutDataFails ==
    pc = "assembled" =>
        \A i \in 1..Len(container.sections) :
            LET s == container.sections[i]
            IN  /\ (s.data.type = "None" /\ s.custom_size = None)
                   => /\ get_header(s) = Raise("Exception")
                      /\ ~result[1].ok
                /\ (s.data.type = "None" /\ s.custom_size # None)
                   => /\ get_header(s) # Raise("Exception")
                      /\ (s.kind \in 0..255 /\ s.custom_size[1] \in 0..65535)
                         => /\ get_header(s).ok
                            /\ Len(get_header(s).val) = 3
                      /\ result[1].ok =>
                            Len(result[1].val) =
                                3 + 3 * Len(container.sections)
                                + Len(TerminatorOf(container))
                                + BodiesLen([container.sections EXCEPT ![i].data = Bytes(<< >>)],
                                            Len(container.sections))
                                + Len(ExtraOf(container))

C3_Witness ==
    /\ pc = "assembled"
    /\ ~result[1].ok
    /\ Len(container.sections) = 2
    /\ container.sections[1].data.type = "None"
    /\ container.sections[1].custom_size # None
    /\ container.sections[2].data.type = "None"
    /\ container.sections[2].custom_size = None
    /\ container.sections[2].kind = SectionKind.CODE
    /\ container.custom_magic = None

SizeAlternatives == {None, Some(0), Some(2), Some(258), Some(65535)}

\* C4: two containers that differ only in the custom_size of section i and
\* both assemble give outputs of the same length that agree everywhere but
\* at the two size bytes 3i+2 and 3i+3 of that section's header; the bytes
\* after the header and terminator are the sections' data, whatever the
\* declared sizes say.
C4_CustomSizeOnlyInHeader ==
    Returned =>
        LET out == result[1].val
            ss == container.sections
            n == Len(ss)
        IN  /\ \A i \in 1..n : \A v \in SizeAlternatives :
                  LET other == assemble([container EXCEPT
                                           !.sections[i].custom_size = v])
                  IN  other.ok =>
                        /\ Len(other.val) = Len(out)
                        /\ \A k \in 1..Len(out) :
                              k \notin {3 * i + 2, 3 * i + 3}
                              => other.val[k] = out[k]
            /\ Len(out) - (3 + 3 * n + Len(TerminatorOf(container))
                           + Len(ExtraOf(container))) = BodiesLen(ss, n)

C4_Witness ==
    /\ Returned
    /\ \E i \in 1..Len(container.sections) :
          /\ container.sections[i].custom_size = Some(258)
          /\ Len(BodyOf(container.sections[i])) = 2
          /\ assemble([container EXCEPT !.sections[i].custom_size = None]).ok
          /\ assemble([container EXCEPT !.sections[i].custom_size = None])
                # result[1]

\* C5: the output equals the canonical output (all four overrides unset)
\* with byte 2 replaced by custom_magic, byte 3 by custom_version, the
\* terminator byte by custom_terminator and extra appended, each only when
\* set; the canonical output has 00 after EF, version 01 and terminator 00;
\* an empty custom_terminator removes the terminator byte.
C5_OverridesReplaceOwnSegment ==
    Returned =>
        LET out == result[1].val
            n == Len(container.sections)
            canon == assemble(Canonical(container))
        IN  /\ canon.ok
            /\ LET cv == canon.val
                   m == IF container.custom_magic = None THEN cv[2]
                        ELSE container.custom_magic[1]
                   v == IF container.custom_version = None THEN cv[3]
                        ELSE container.custom_version[1]
                   term == IF container.custom_terminator = None
                           THEN <<cv[3 * n + 4]>>
                           ELSE container.custom_terminator[1]
                   extra == IF container.extra = None THEN << >>
                            ELSE container.extra[1]
               IN  /\ cv[1] = 239 /\ cv[2] = 0 /\ cv[3] = 1
                   /\ cv[3 * n + 4] = 0
                   /\ out = <<cv[1], m, v>> \o SubSeq(cv, 4, 3 * n + 3)
                            \o term \o SubSeq(cv, 3 * n + 5, Len(cv))
                            \o extra
                   /\ container.custom_terminator = Some(<< >>)
                      => Len(out) = Len(cv) - 1 + Len(extra)
                   /\ container.custom_terminator = None
                      => Len(out) = Len(cv) + Len(extra)

C5_Witness ==
    /\ Returned
    /\ container.custom_terminator = Some(<< >>)
    /\ container.custom_magic = Some(254)
    /\ container.custom_version = None
    /\ container.extra # None
    /\ Len(container.sections) = 2

\* the canonical case with at least one section whose header can be built
CanonicalWithSection ==
    /\ Returned
    /\ container = Canonical(container)
    /\ Len(container.sections) >= 1

\* C6 as stated: the canonical output is a 1-byte marker, a 2-byte magic and
\* a 1-byte version, so that the first section header starts at offset 4
\* (the fifth byte).
C6_FirstHeaderAtOffset4 ==
    CanonicalWithSection =>
        LET out == result[1].val
            s == container.sections[1]
        IN  /\ out[1] = 239
            /\ out[4] = 1
            /\ out[5] = s.kind
            /\ 256 * out[6] + out[7] = HeaderSizeOf(s)

\* C6 amended: the canonical output is the 1-byte marker EF, the 1-byte
\* magic 00 and the 1-byte version 01, so that the first section header
\* starts at offset 3 (the fourth byte).
C6_FirstHeaderAtOffset3 ==
    CanonicalWithSection =>
        LET out == result[1].val
            s == container.sections[1]
        IN  /\ out[1] = 239
            /\ out[2] = 0
            /\ out[3] = 1
            /\ out[4] = s.kind
            /\ 256 * out[5] + out[6] = HeaderSizeOf(s)

C6_Witness ==
    /\ CanonicalWithSection
    /\ container.sections[1].kind = 254
    /\ Len(container.sections) = 2

\* a canonical container with a single CODE section of custom size 2 and no
\* body bytes
IncompleteCodeSection ==
    /\ pc = "assembled"
    /\ container = Canonical(container)
    /\ Len(container.sections) = 1
    /\ container.sections[1].kind = SectionKind.CODE
    /\ container.sections[1].custom_size = Some(2)
    /\ container.sections[1].data \in {NoneData, Bytes(<< >>), Str(<<"0", "x">>)}

\* the total length the header of an output announces: the header itself
\* (three bytes, three per section, the terminator) plus the declared sizes
RECURSIVE DeclaredSizes(_, _)
DeclaredSizes(out, k) ==
    IF k = 0 THEN 0
    ELSE DeclaredSizes(out, k - 1) + 256 * out[3 * k + 2] + out[3 * k + 3]
DeclaredTotal(out, n) == 3 + 3 * n + 1 + DeclaredSizes(out, n)

\* C7 as stated: that container assembles to exactly 1 byte less than the
\* total length its header declares.
C7_OneByteShort ==
    IncompleteCodeSection =>
        /\ result[1].ok
        /\ Len(result[1].val) = DeclaredTotal(result[1].val, 1) - 1

\* C7 amended: that container assembles to ef 00 01 01 0002 00, exactly 2
\* bytes (the whole declared size) less than the total length its header
\* declares; nothing is padded.
C7_TwoBytesShort ==
    IncompleteCodeSection =>
        /\ result[1].ok
        /\ result[1].val = <<239, 0, 1, 1, 0, 2, 0>>
        /\ Len(result[1].val) = DeclaredTotal(result[1].val, 1) - 2

C7_Witness ==
    /\ IncompleteCodeSection
    /\ container.sections[1].data = Str(<<"0", "x">>)
    /\ result[1].ok

----------------------------------------------------------------------------
(* Properties of generate_initcode                                         *)

\* C8: for every argument that converts to a payload of n <= 65535 bytes,
\* generate_initcode returns a Code that assembles to 11 + n bytes: 61, n as
\* two bytes big-endian, 60 00 81 60 0B 82 39 F3, then the payload
\* unchanged; the pushed copy offset 0x0B is the number of bytes in front of
\* the payload.
C8_InitcodeTemplate ==
    (pc = "generated" /\ code_to_bytes(code).ok
        /\ Len(code_to_bytes(code).val) \in 0..65535) =>
        /\ initcode[1].ok
        /\ initcode[1].val.type = "Code"
        /\ LET payload == code_to_bytes(code).val
               n == Len(payload)
               out == Code_assemble(initcode[1].val).val
           IN  /\ Len(out) = 11 + n
               /\ out[1] = 97
               /\ 256 * out[2] + out[3] = n
               /\ SubSeq(out, 4, 11) = <<96, 0, 129, 96, 11, 130, 57, 243>>
               /\ SubSeq(out, 12, Len(out)) = payload
               /\ out[8] = Len(out) - n

C8_Witness ==
    /\ pc = "generated"
    /\ code.type = "bytes"
    /\ Len(code.bytes) = 65535
    /\ initcode[1].ok
    /\ Len(Code_assemble(initcode[1].val).val) = 65546

----------------------------------------------------------------------------
(* Properties of the fixture lists                                         *)

AllFixtures == ALL_VALID_CONTAINERS \o ALL_INVALID_CONTAINERS

\* C9: once every generation rule has run, no two fixtures of
\* ALL_VALID_CONTAINERS and ALL_INVALID_CONTAINERS together have the same
\* name.
C9_NamesUnique ==
    pc = "done" =>
        \A i, j \in 1..Len(AllFixtures) :
            i # j => AllFixtures[i].name # AllFixtures[j].name

\* the byte content of a fixture
FixtureBytes(f) == code_to_bytes(f).val

\* C10: no fixture of ALL_VALID_CONTAINERS has the byte content of a
\* fixture of ALL_INVALID_CONTAINERS, at any point of the generation.
C10_ValidInvalidDisjoint ==
    { FixtureBytes(ALL_VALID_CONTAINERS[i]) : i \in 1..Len(ALL_VALID_CONTAINERS) }
    \cap
    { FixtureBytes(ALL_INVALID_CONTAINERS[i]) : i \in 1..Len(ALL_INVALID_CONTAINERS) }
    = {}

C10_Witness ==
    /\ pc = "done"
    /\ \E i \in 1..Len(ALL_VALID_CONTAINERS) :
          ALL_VALID_CONTAINERS[i].name = Some("valid_rjump_one_relative_jump_to_stop")
    /\ \E i \in 1..Len(ALL_INVALID_CONTAINERS) :
          ALL_INVALID_CONTAINERS[i].name = Some("valid_rjump_one_relative_jump_outside_of_code")
    /\ \E i \in 1..Len(ALL_INVALID_CONTAINERS) :
          ALL_INVALID_CONTAINERS[i].name = Some("invalid_terminating_opcode_0x01")

----------------------------------------------------------------------------
(* Properties of the generation rules                                      *)

\* the code section of a generated container, as bytes
CodeSectionOf(f) == code_to_bytes(f.sections[1].data).val

\* the last n elements of a list
LastN(list, n) == SubSeq(list, Len(list) - n + 1, Len(list))

\* the byte values of the entries of the opcode table
TableBytes == { OPCODES[k].byte_int : k \in 1..Len(OPCODES) }

\* the containers the running loop has appended to ALL_INVALID_CONTAINERS
AddedInvalid == LastN(ALL_INVALID_CONTAINERS, idx - 1)

\* C11: while the loop over INVALID_OPCODES runs, every container it has
\* appended has a code section of two bytes, a byte that no entry of OPCODES
\* has followed by STOP, and no two of them have the same first byte; when
\* the loop is over it has appended 256 - (number of entries of OPCODES)
\* containers, one for each byte of 0..255 that no entry has.
C11_UndefinedOpcodeRuleExhaustive ==
    pc = "invalid_opcodes" =>
        /\ \A k \in 1..(idx - 1) :
              /\ AddedInvalid[k].type = "Container"
              /\ Len(CodeSectionOf(AddedInvalid[k])) = 2
              /\ CodeSectionOf(AddedInvalid[k])[1] \in (0..255) \ TableBytes
              /\ <<CodeSectionOf(AddedInvalid[k])[2]>> = OPCODES_STOP.byte
        /\ Cardinality({ CodeSectionOf(AddedInvalid[k])[1] : k \in 1..(idx - 1) })
              = idx - 1
        /\ idx > Len(INVALID_OPCODES) =>
              /\ idx - 1 = 256 - Len(OPCODES)
              /\ { CodeSectionOf(AddedInvalid[k])[1] : k \in 1..(idx - 1) }
                    = (0..255) \ TableBytes

C11_Witness ==
    /\ pc = "invalid_opcodes"
    /\ idx > Len(INVALID_OPCODES)
    /\ idx - 1 = 106
    /\ \E k \in 1..(idx - 1) : CodeSectionOf(AddedInvalid[k]) = <<12, 0>>

\* the legal terminating opcodes, as byte values
LegalTerminatorBytes ==
    { VALID_TERMINATING_OPCODES[k].byte_int :
          k \in 1..Len(VALID_TERMINATING_OPCODES) }

\* C12: while the loop over INVALID_TERMINATING_OPCODES runs, every
\* container it has appended has a code section whose last byte is not the
\* byte of a legal terminating opcode, and no two of them have the same last
\* byte; when the loop is over it has appended 256 - (number of legal
\* terminating opcodes) containers, one for each byte of 0..255 that is not
\* a legal terminating opcode.
C12_InvalidTerminatorRuleExhaustive ==
    pc = "invalid_terminating" =>
        LET last(k) == CodeSectionOf(AddedInvalid[k])[Len(CodeSectionOf(AddedInvalid[k]))]
        IN  /\ \A k \in 1..(idx - 1) :
                  /\ AddedInvalid[k].type = "Container"
                  /\ Len(CodeSectionOf(AddedInvalid[k])) >= 1
                  /\ last(k) \in (0..255) \ LegalTerminatorBytes
            /\ Cardinality({ last(k) : k \in 1..(idx - 1) }) = idx - 1
            /\ idx > Len(INVALID_TERMINATING_OPCODES) =>
                  /\ idx - 1 = 256 - Len(VALID_TERMINATING_OPCODES)
                  /\ { last(k) : k \in 1..(idx - 1) }
                        = (0..255) \ LegalTerminatorBytes

C12_Witness ==
    /\ pc = "invalid_terminating"
    /\ idx > Len(INVALID_TERMINATING_OPCODES)
    /\ idx - 1 = 250
    /\ \E k \in 1..(idx - 1) : CodeSectionOf(AddedInvalid[k]) = <<1>>

\* the positions of ALL_INVALID_CONTAINERS that hold a fixture of this name
InvalidNamed(name) ==
    { i \in 1..Len(ALL_INVALID_CONTAINERS) :
          ALL_INVALID_CONTAINERS[i].name = Some(name) }

\* the loop over VALID_DATA_PORTION_OPCODES is over
DataPortionLoopOver ==
    \/ pc = "data_portion" /\ idx > Len(VALID_DATA_PORTION_OPCODES)
    \/ pc \in {"valid_codes", "invalid_codes", "done"}

\* C13: once the loop over VALID_DATA_PORTION_OPCODES is over, for every
\* entry of OPCODES with an immediate of L > 0 bytes the invalid list holds
\* one "no_data" fixture whose code is the opcode alone, one "terminating"
\* fixture whose code is the opcode and exactly L more bytes, and, exactly
\* when L > 1, one "one_byte" fixture whose code is the opcode and one more
\* byte; each of these code sections is shorter than 1 + L + 1 bytes.  An
\* entry without an immediate has none of the three.
C13_TruncatedImmediateFixtures ==
    DataPortionLoopOver =>
        \A k \in 1..Len(OPCODES) :
            LET op == OPCODES[k]
                L == op.data_portion_length
                prefix == "valid_truncated_opcode_" \o Join(op.name) \o "_"
                no_data == InvalidNamed(prefix \o "no_data")
                one_byte == InvalidNamed(prefix \o "one_byte")
                terminating == InvalidNamed(prefix \o "terminating")
                code_at(i) == CodeSectionOf(ALL_INVALID_CONTAINERS[i])
            IN  IF L > 0
                THEN /\ Cardinality(no_data) = 1
                     /\ \A i \in no_data : code_at(i) = op.byte
                     /\ Cardinality(terminating) = 1
                     /\ \A i \in terminating :
                           /\ Len(code_at(i)) = 1 + L
                           /\ SubSeq(code_at(i), 1, 1) = op.byte
                     /\ Cardinality(one_byte) = (IF L > 1 THEN 1 ELSE 0)
                     /\ \A i \in one_byte :
                           /\ Len(code_at(i)) = 2
                           /\ SubSeq(code_at(i), 1, 1) = op.byte
                     /\ \A i \in no_data \cup one_byte \cup terminating :
                           Len(code_at(i)) < 1 + L + 1
                ELSE no_data \cup one_byte \cup terminating = {}

C13_Witness ==
    /\ pc = "data_portion"
    /\ idx > Len(VALID_DATA_PORTION_OPCODES)
    /\ InvalidNamed("valid_truncated_opcode_PUSH1_one_byte") = {}
    /\ \E i \in InvalidNamed("valid_truncated_opcode_PUSH1_terminating") :
          CodeSectionOf(ALL_INVALID_CONTAINERS[i]) = <<96, 0>>
    /\ \E i \in InvalidNamed("valid_truncated_opcode_PUSH32_one_byte") :
          CodeSectionOf(ALL_INVALID_CONTAINERS[i]) = <<127, 0>>
    /\ \E i \in InvalidNamed("valid_truncated_opcode_RJUMP_no_data") :
          CodeSectionOf(ALL_INVALID_CONTAINERS[i]) = <<92>>

----------------------------------------------------------------------------
(* Static reading of a code section by the opcode table                    *)

\* the number of immediate bytes that follow the opcode byte b
ImmediateLen(b) ==
    IF b \in TableBytes
    THEN OPCODES[CHOOSE k \in 1..Len(OPCODES) : OPCODES[k].byte_int = b].data_portion_length
    ELSE 0

\* the positions (from 0) of the first bytes of the instructions of a code
\* section, read from position pos on
RECURSIVE InstructionStartsFrom(_, _)
InstructionStartsFrom(bytecode, pos) ==
    IF pos >= Len(bytecode) THEN {}
    ELSE {pos} \cup InstructionStartsFrom(bytecode,
                                          pos + 1 + ImmediateLen(bytecode[pos + 1]))

InstructionStarts(bytecode) == InstructionStartsFrom(bytecode, 0)

\* a two-byte big-endian two's complement number
Signed16(hi, lo) ==
    IF 256 * hi + lo >= 32768 THEN 256 * hi + lo - 65536 ELSE 256 * hi + lo

\* the code section starts with a relative jump
StartsWithJump(bytecode) ==
    /\ Len(bytecode) >= 3
    /\ <<bytecode[1]>> = OPCODES_RJUMP.byte

\* the target of the jump a code section starts with: the position just
\* after the three bytes of the jump plus the signed offset
JumpTarget(bytecode) == 3 + Signed16(bytecode[2], bytecode[3])

\* the target is inside the code and is the first byte of an instruction
LegalJumpTarget(bytecode) ==
    /\ JumpTarget(bytecode) \in 0..(Len(bytecode) - 1)
    /\ JumpTarget(bytecode) \in InstructionStarts(bytecode)

\* C14: every container the loop over invalid_codes has appended starts
\* with a relative jump whose target is illegal: before the start of the
\* code, at or past its end, or not the first byte of an instruction.
C14_InvalidJumpTargetsIllegal ==
    pc = "invalid_codes" =>
        \A k \in 1..(idx - 1) :
            /\ StartsWithJump(CodeSectionOf(AddedInvalid[k]))
            /\ ~LegalJumpTarget(CodeSectionOf(AddedInvalid[k]))

\* the containers the running loop has appended to ALL_VALID_CONTAINERS
AddedValid == LastN(ALL_VALID_CONTAINERS, idx - 1)

\* every instruction of the code section is an entry of the table and has
\* all its immediate bytes
DefinedAndComplete(bytecode) ==
    \A p \in InstructionStarts(bytecode) :
        /\ bytecode[p + 1] \in TableBytes
        /\ p + 1 + ImmediateLen(bytecode[p + 1]) <= Len(bytecode)

\* the last instruction of the code section is a legal terminating opcode
EndsWithLegalTerminator(bytecode) ==
    /\ InstructionStarts(bytecode) # {}
    /\ LET p == CHOOSE q \in InstructionStarts(bytecode) :
                    \A r \in InstructionStarts(bytecode) : r <= q
       IN  bytecode[p + 1] \in LegalTerminatorBytes

\* C15: every container the loop over valid_codes has appended starts with
\* a relative jump whose target is inside the code and is the first byte of
\* an instruction, holds only defined opcodes with complete immediates and
\* ends with a legal terminating opcode; when the loop is over the
\* containers include a jump of offset 0, a backward jump whose target is
\* the jump itself and a forward jump over exactly one instruction.
C15_ValidJumpTargetsLegal ==
    pc = "valid_codes" =>
        /\ \A k \in 1..(idx - 1) :
              /\ StartsWithJump(CodeSectionOf(AddedValid[k]))
              /\ LegalJumpTarget(CodeSectionOf(AddedValid[k]))
              /\ DefinedAndComplete(CodeSectionOf(AddedValid[k]))
              /\ EndsWithLegalTerminator(CodeSectionOf(AddedValid[k]))
        /\ idx > Len(valid_codes) =>
              /\ \E k \in 1..(idx - 1) :
                    JumpTarget(CodeSectionOf(AddedValid[k])) = 3
              /\ \E k \in 1..(idx - 1) :
                    JumpTarget(CodeSectionOf(AddedValid[k])) = 0
              /\ \E k \in 1..(idx - 1) :
                    LET bytecode == CodeSectionOf(AddedValid[k])
                    IN  /\ Len(bytecode) > 3
                        /\ JumpTarget(bytecode)
                              = 3 + 1 + ImmediateLen(bytecode[4])

C15_Witness ==
    /\ pc = "valid_codes"
    /\ idx > Len(valid_codes)
    /\ idx - 1 = 4
    /\ CodeSectionOf(AddedValid[2]) = <<92, 255, 253, 0>>
    /\ CodeSectionOf(AddedValid[3]) = <<92, 0, 1, 0, 91, 0>>

\* the entry of the opcode table for the byte b
EntryOf(b) == OPCODES[CHOOSE k \in 1..Len(OPCODES) : OPCODES[k].byte_int = b]

\* a static stack simulation of a code section of defined opcodes, from
\* position pos with height items on the stack: no instruction pops more
\* than the stack holds
RECURSIVE NeverUnderflowsFrom(_, _, _)
NeverUnderflowsFrom(bytecode, pos, height) ==
    IF pos >= Len(bytecode) THEN TRUE
    ELSE LET op == EntryOf(bytecode[pos + 1])
         IN  /\ height >= op.popped_stack_items
             /\ NeverUnderflowsFrom(bytecode,
                                    pos + 1 + op.data_portion_length,
                                    height - op.popped_stack_items
                                           + op.pushed_stack_items)

\* C16: the k-th container the loop over VALID_TERMINATING_OPCODES has
\* appended has as code section min_stack_height copies of ORIGIN, an opcode
\* that pops nothing and pushes one item, and then the k-th legal
\* terminating opcode, so that a static stack simulation from the empty
\* stack never underflows and reaches the terminator with at least the items
\* it pops; when the loop is over it has appended one container for each
\* legal terminating opcode.
C16_TerminatorFixturesPadStack ==
    pc = "valid_terminating" =>
        /\ OPCODES_ORIGIN.popped_stack_items = 0
        /\ OPCODES_ORIGIN.pushed_stack_items = 1
        /\ \A k \in 1..(idx - 1) :
              LET op == VALID_TERMINATING_OPCODES[k]
                  bytecode == CodeSectionOf(AddedValid[k])
              IN  /\ AddedValid[k].type = "Container"
                  /\ Len(bytecode) = op.min_stack_height + 1
                  /\ \A i \in 1..op.min_stack_height :
                        <<bytecode[i]>> = OPCODES_ORIGIN.byte
                  /\ bytecode[Len(bytecode)] = op.byte_int
                  /\ Len(bytecode) - 1 >= op.popped_stack_items
                  /\ NeverUnderflowsFrom(bytecode, 0, 0)
        /\ idx > Len(VALID_TERMINATING_OPCODES) =>
              /\ idx - 1 = Cardinality(LegalTerminatorBytes)
              /\ \A b \in LegalTerminatorBytes :
                    Cardinality({ k \in 1..(idx - 1) :
                        LET bytecode == CodeSectionOf(AddedValid[k])
                        IN  bytecode[Len(bytecode)] = b }) = 1

C16_Witness ==
    /\ pc = "valid_terminating"
    /\ idx > Len(VALID_TERMINATING_OPCODES)
    /\ idx - 1 = 6
    /\ CodeSectionOf(AddedValid[2]) = <<50, 50, 243>>
    /\ CodeSectionOf(AddedValid[5]) = <<50, 255>>
    /\ CodeSectionOf(AddedValid[6]) = <<177>>

----------------------------------------------------------------------------
(* Reading an assembled container back                                     *)

\* the position (from 1) of the terminator byte that ends the header entries
\* read from position pos on, or 0 when the bytes run out before it
RECURSIVE TerminatorPosition(_, _)
TerminatorPosition(b, pos) ==
    IF pos > Len(b) THEN 0
    ELSE IF <<b[pos]>> = EOF_HEADER_TERMINATOR THEN pos
    ELSE IF pos + 2 > Len(b) THEN 0
    ELSE TerminatorPosition(b, pos + 3)

\* the (kind, size) header entries from position pos up to position last
RECURSIVE ParseHeaders(_, _, _)
ParseHeaders(b, pos, last) ==
    IF pos >= last THEN << >>
    ELSE <<[kind |-> b[pos], size |-> 256 * b[pos + 1] + b[pos + 2]]>>
         \o ParseHeaders(b, pos + 3, last)

\* the bodies of the declared sizes from position pos on
RECURSIVE ParseBodies(_, _, _)
ParseBodies(b, headers, pos) ==
    IF headers = << >> THEN << >>
    ELSE <<SubSeq(b, pos, pos + Head(headers).size - 1)>>
         \o ParseBodies(b, Tail(headers), pos + Head(headers).size)

RECURSIVE SumSizes(_)
SumSizes(headers) ==
    IF headers = << >> THEN 0 ELSE Head(headers).size + SumSizes(Tail(headers))

\* marker, magic, version, headers, terminator, bodies
Parse(b) ==
    IF Len(b) < 3 \/ TerminatorPosition(b, 4) = 0 THEN [ok |-> FALSE]
    ELSE LET last == TerminatorPosition(b, 4)
             headers == ParseHeaders(b, 4, last)
         IN  IF last + SumSizes(headers) > Len(b)
             THEN [ok |-> FALSE]
             ELSE [ok |-> TRUE,
                   marker |-> b[1],
                   magic |-> <<b[2]>>,
                   version |-> <<b[3]>>,
                   headers |-> headers,
                   terminator |-> <<b[last]>>,
                   bodies |-> ParseBodies(b, headers, last + 1),
                   consumed |-> last + SumSizes(headers)]

\* C17: the bytes of every fixture of ALL_VALID_CONTAINERS parse as marker
\* EF, the canonical magic and version, one (kind, size) header per section
\* of the fixture in order, the canonical terminator and the bodies of the
\* sections in order; each declared size is the length of its body and the
\* parse consumes all the bytes.
C17_ValidFixturesRoundTrip ==
    \A n \in 1..Len(ALL_VALID_CONTAINERS) :
        LET f == ALL_VALID_CONTAINERS[n]
            b == FixtureBytes(f)
            p == Parse(b)
        IN  /\ f.type = "Container"
            /\ p.ok
            /\ p.marker = 239
            /\ p.magic = EOF_MAGIC
            /\ p.version = VERSION_NUMBER
            /\ p.terminator = EOF_HEADER_TERMINATOR
            /\ p.consumed = Len(b)
            /\ Len(p.headers) = Len(f.sections)
            /\ \A i \in 1..Len(f.sections) :
                  /\ p.headers[i].kind = f.sections[i].kind
                  /\ p.bodies[i] = code_to_bytes(f.sections[i].data).val
                  /\ p.headers[i].size = Len(p.bodies[i])

C17_Witness ==
    /\ pc = "done"
    /\ Len(ALL_VALID_CONTAINERS) = 12
    /\ \E n \in 1..Len(ALL_VALID_CONTAINERS) :
          /\ FixtureBytes(ALL_VALID_CONTAINERS[n])
                = <<239, 0, 1, 1, 0, 3, 2, 0, 1, 0, 50, 50, 243, 0>>
          /\ Parse(FixtureBytes(ALL_VALID_CONTAINERS[n])).bodies
                = << <<50, 50, 243>>, <<0>> >>

----------------------------------------------------------------------------
(* Properties of the opcode table                                          *)

\* the entries of OPCODES that have the byte b
EntriesOf(b) == { k \in 1..Len(OPCODES) : OPCODES[k].byte_int = b }

\* C18: every entry of OPCODES has a byte in 0..255, no byte has more than
\* one entry, and the bytes the code takes as undefined (INVALID_OPCODES) are
\* exactly the bytes of 0..255 that have no entry.
C18_OpcodeTablePartialFunction ==
    pc \in {"valid_terminating", "invalid_terminating", "invalid_opcodes",
            "data_portion", "valid_codes", "invalid_codes", "done"} =>
        /\ \A k \in 1..Len(OPCODES) :
              /\ OPCODES[k].byte_int \in 0..255
              /\ OPCODES[k].byte = <<OPCODES[k].byte_int>>
        /\ \A b \in 0..255 : Cardinality(EntriesOf(b)) <= 1
        /\ Cardinality(TableBytes) = Len(OPCODES)
        /\ \A k \in 1..Len(INVALID_OPCODES) : Len(INVALID_OPCODES[k]) = 1
        /\ { INVALID_OPCODES[k][1] : k \in 1..Len(INVALID_OPCODES) }
              = { b \in 0..255 : EntriesOf(b) = {} }

C18_Witness ==
    /\ pc = "invalid_opcodes"
    /\ idx = 1
    /\ Len(OPCODES) = 150
    /\ EntriesOf(12) = {}
    /\ INVALID_OPCODES[1] = <<12>>
    /\ \E k \in EntriesOf(92) : OPCODES[k].name = <<"R", "J", "U", "M", "P">>

----------------------------------------------------------------------------
(* Properties of the extension flags                                       *)

CodeValidationEnabled == In(EIP_CODE_VALIDATION, enabled_eips)
RelativeJumpsEnabled == In(EIP_STATIC_RELATIVE_JUMPS, enabled_eips)
FunctionsEnabled == In(EIP_EOF_FUNCTIONS, enabled_eips)

\* the positions of ALL_VALID_CONTAINERS that hold a fixture of the
\* terminator rule
TerminatorFixtures ==
    { i \in 1..Len(ALL_VALID_CONTAINERS) :
        \E k \in 1..Len(OPCODES) :
            ALL_VALID_CONTAINERS[i].name
                = Some("valid_terminating_opcode_" \o Join(lower(OPCODES[k].name))) }

\* the opcodes that end the code of the fixtures of the terminator rule
TerminatorsWithFixture ==
    { LET bytecode == CodeSectionOf(ALL_VALID_CONTAINERS[i])
      IN  bytecode[Len(bytecode)] : i \in TerminatorFixtures }

\* the names the relative-jump rule gives
RjumpNames ==
    { Some("valid_rjump_" \o valid_codes[k][2]) : k \in 1..Len(valid_codes) }
    \cup { Some("valid_rjump_" \o invalid_codes[k][2]) : k \in 1..Len(invalid_codes) }

\* the fixtures of both lists that carry a name of the relative-jump rule
RjumpFixtures ==
    { i \in 1..Len(AllFixtures) : AllFixtures[i].name \in RjumpNames }

\* an invalid fixture of this name and this code section exists
InvalidFixture(name, bytecode) ==
    \E i \in InvalidNamed(name) :
        /\ ALL_INVALID_CONTAINERS[i].type = "Container"
        /\ CodeSectionOf(ALL_INVALID_CONTAINERS[i]) = bytecode

\* the number of containers the truncated-immediate rule adds: three for an
\* opcode with more than one immediate byte, two for one with one
DataPortionCount ==
    3 * Cardinality({ k \in 1..Len(OPCODES) : OPCODES[k].data_portion_length > 1 })
    + 2 * Cardinality({ k \in 1..Len(OPCODES) : OPCODES[k].data_portion_length = 1 })

\* C19: when every for statement has run, (1) without code validation
\* (3670) in the list both fixture lists are the list literals; (2) with it,
\* the terminating opcodes that got a valid fixture are STOP, RETURN,
\* REVERT, INVALID and SELFDESTRUCT, and RETF exactly when functions (4750)
\* is in the list, RETF being an invalid terminator exactly when it is not,
\* and the undefined-opcode and truncated-immediate rules have added their
\* fixtures; (3) fixtures of the relative-jump rule exist exactly when
\* 3670 and 4200 are both in the list; (4) nothing else has been added.
C19_FlagsSelectRules ==
    pc = "done" =>
        LET terminators ==
                {OPCODES_STOP.byte_int, OPCODES_RETURN.byte_int,
                 OPCODES_REVERT.byte_int, OPCODES_INVALID.byte_int,
                 OPCODES_SELFDESTRUCT.byte_int}
                \cup (IF FunctionsEnabled THEN {OPCODES_RETF.byte_int} ELSE {})
            jumps == CodeValidationEnabled /\ RelativeJumpsEnabled
        IN  /\ ~CodeValidationEnabled =>
                  /\ ALL_VALID_CONTAINERS = INITIAL_VALID_CONTAINERS
                  /\ ALL_INVALID_CONTAINERS = INITIAL_INVALID_CONTAINERS
            /\ CodeValidationEnabled =>
                  /\ TerminatorsWithFixture = terminators
                  /\ Cardinality(TerminatorFixtures) = Cardinality(terminators)
                  /\ InvalidFixture("invalid_terminating_opcode_0xb1", OPCODES_RETF.byte)
                        <=> ~FunctionsEnabled
                  /\ InvalidFixture("invalid_terminating_opcode_0x01", <<1>>)
                  /\ InvalidFixture("invalid_terminating_opcode_0x0c", <<12, 0>>)
                  /\ InvalidFixture("valid_truncated_opcode_PUSH1_no_data", <<96>>)
                  /\ Len(ALL_VALID_CONTAINERS)
                        = Len(INITIAL_VALID_CONTAINERS) + Cardinality(terminators)
                          + (IF jumps THEN Len(valid_codes) ELSE 0)
                  /\ Len(ALL_INVALID_CONTAINERS)
                        = Len(INITIAL_INVALID_CONTAINERS)
                          + (256 - Cardinality(terminators))
                          + (256 - Cardinality(TableBytes))
                          + DataPortionCount
                          + (IF jumps THEN Len(invalid_codes) ELSE 0)
            /\ RjumpFixtures # {} <=> jumps
            /\ jumps => Cardinality(RjumpFixtures)
                            = Len(valid_codes) + Len(invalid_codes)

C19_Witness ==
    /\ pc = "done"
    /\ CodeValidationEnabled
    /\ ~FunctionsEnabled
    /\ ~RelativeJumpsEnabled
    /\ Len(ALL_VALID_CONTAINERS) = 7
    /\ InvalidFixture("invalid_terminating_opcode_0xb1", <<177>>)
    /\ RjumpFixtures = {}

\* C20: when every for statement has run with code validation (3670) but
\* not static relative jumps (4200) in the list, the bytes of RJUMP and
\* RJUMPI each have a fixture of the undefined-opcode rule (the byte and then
\* STOP) and no fixture of the truncated-immediate rule.
C20_RelativeJumpsUndefinedWithoutFlag ==
    (pc = "done" /\ CodeValidationEnabled /\ ~RelativeJumpsEnabled) =>
        \A k \in 1..Len(OPCODES) :
            OPCODES[k].byte_int \in {OPCODES_RJUMP.byte_int, OPCODES_RJUMPI.byte_int} =>
                /\ InvalidFixture("invalid_terminating_opcode_0x" \o hex(OPCODES[k].byte),
                                  OPCODES[k].byte \o OPCODES_STOP.byte)
                /\ InvalidNamed("valid_truncated_opcode_" \o Join(OPCODES[k].name)
                                    \o "_no_data") = {}
                /\ InvalidNamed("valid_truncated_opcode_" \o Join(OPCODES[k].name)
                                    \o "_one_byte") = {}
                /\ InvalidNamed("valid_truncated_opcode_" \o Join(OPCODES[k].name)
                                    \o "_terminating") = {}

----------------------------------------------------------------------------
(* ethereum_test_tools/spec/eof_test.py                                    *)

\* class EOFValidationError(str, Enum): the members, by their string value
EOFValidationError ==
    { "UnexpectedEOF", "InvalidMagic", "InvaildVersion", "MissingTypeHeader",
      "InvalidTypeSize", "MissingCodeHeader", "InvalidCodeHeader",
      "MissingDataHeader", "MissingTerminator", "TooManyInputs",
      "TooManyOutputs", "TooLargeMaxStackHeight", "InvalidSection0Type",
      "InvalidCodeSize", "InvalidContainerSize", "UndefinedInstruction",
      "TruncatedImmediate", "InvalidSectionArgument", "InvalidJumpDest",
      "ConflictingStack", "InvalidBranchCount", "StackUnderflow",
      "StackOverflow", "InvalidOutputs", "InvalidMaxStackHeight",
      "InvalidCodeTermination", "UnreachableCode" }

----------------------------------------------------------------------------
(* Properties of the expected outcome of a fixture                         *)

\* the members of EOFValidationError an element of a fixture list carries
ErrorsOf(f) ==
    IF "error" \in DOMAIN f THEN {f.error} \cap EOFValidationError ELSE {}

\* C21: at any point of the generation, every element of
\* ALL_INVALID_CONTAINERS carries exactly one member of EOFValidationError
\* and every element of ALL_VALID_CONTAINERS carries none.
C21_FixturesCarryExpectedError ==
    /\ \A i \in 1..Len(ALL_INVALID_CONTAINERS) :
          Cardinality(ErrorsOf(ALL_INVALID_CONTAINERS[i])) = 1
    /\ \A i \in 1..Len(ALL_VALID_CONTAINERS) :
          ErrorsOf(ALL_VALID_CONTAINERS[i]) = {}

----------------------------------------------------------------------------
(* Nesting scenario: a container that holds containers is assembled once.  *)

MaxNesting == 3

\* section data that is not a container
LeafData == { Bytes(<<0>>), Str(<<"0", "x", "0", "1">>) }

PlainContainer(sections) == Container(sections, None, None, None, None, None)

\* containers without a nested container: one code section, or a code and
\* a data section
FlatContainers ==
    { PlainContainer(<<Section(SectionKind.CODE, d, None)>>) : d \in LeafData }
    \cup
    { PlainContainer(<<Section(SectionKind.CODE, d1, None),
                       Section(SectionKind.DATA, d2, None)>>) :
        d1 \in LeafData, d2 \in LeafData }

\* the containers that hold inner as the data of one section: alone, as in
\* test_eof_v1.py "Nested EOF", or before or after a section of plain data
Wrap(inner) ==
    { PlainContainer(<<Section(SectionKind.CODE, inner, None)>>) }
    \cup
    { PlainContainer(<<Section(SectionKind.CODE, inner, None),
                       Section(SectionKind.DATA, d, None)>>) : d \in LeafData }
    \cup
    { PlainContainer(<<Section(SectionKind.CODE, d, None),
                       Section(SectionKind.DATA, inner, None)>>) : d \in LeafData }

\* containers with exactly depth levels of containers inside them
RECURSIVE NestedContainers(_)
NestedContainers(depth) ==
    IF depth = 0 THEN FlatContainers
    ELSE UNION { Wrap(inner) : inner \in NestedContainers(depth - 1) }

NestedContainerInputs == UNION { NestedContainers(d) : d \in 1..MaxNesting }

InitNested ==
    /\ pc = "built"
    /\ container \in NestedContainerInputs
    /\ result = None
    /\ code = NoneData
    /\ initcode = None
    /\ ALL_VALID_CONTAINERS = << >>
    /\ ALL_INVALID_CONTAINERS = << >>
    /\ idx = 0
    /\ enabled_eips = << >>
    /\ NoOperands /\ NoGenerator /\ NoTool

SpecNested == InitNested /\ [][Next]_vars

----------------------------------------------------------------------------
(* Properties of nested containers                                         *)

\* the number of levels of containers inside the data of the sections of c
RECURSIVE NestingDepth(_)
NestingDepth(c) ==
    LET inner == { i \in 1..Len(c.sections) : c.sections[i].data.type = "Container" }
    IN  IF inner = {} THEN 0
        ELSE 1 + NestingDepth(c.sections[CHOOSE i \in inner :
                    \A j \in inner :
                        NestingDepth(c.sections[j].data) <= NestingDepth(c.sections[i].data)].data)

\* C22: when a container with a section whose data is a container (at any
\* depth of nesting) has been assembled, assemble returned, the two size
\* bytes of that section's header are the length of the bytes
\* Container.assemble gives for the nested container, and the section's body
\* in the output is exactly those bytes.
C22_NestedContainerByValue ==
    pc = "assembled" =>
        /\ result[1].ok
        /\ LET out == result[1].val
               ss == container.sections
               n == Len(ss)
           IN  \A i \in 1..n :
                  ss[i].data.type = "Container" =>
                      LET nested == assemble(ss[i].data)
                          start == 3 + 3 * n + 1 + BodiesLen(ss, i - 1)
                      IN  /\ nested.ok
                          /\ out[3 * i + 1] = ss[i].kind
                          /\ 256 * out[3 * i + 2] + out[3 * i + 3] = Len(nested.val)
                          /\ SubSeq(out, start + 1, start + Len(nested.val)) = nested.val
                          /\ i = n => Len(out) = start + Len(nested.val)

C22_Witness ==
    /\ pc = "assembled"
    /\ result[1].ok
    /\ NestingDepth(container) = 3
    /\ Len(container.sections) = 2
    /\ container.sections[2].data.type = "Container"
    /\ Len(container.sections[2].data.sections) = 2
    /\ container.sections[2].data.sections[1].data.type = "Container"

----------------------------------------------------------------------------
(* execution_tests_library/code/code.py: construction and addition         *)

\* Code(*args, bytecode=..., name=...): the dataclass is declared kw_only
Code_init(args, bytecode, name) ==
    IF args # << >> THEN Raise("TypeError") ELSE Ok(Code(bytecode, name))

\* isinstance(code, Code): Container is a subclass of Code
IsCode(c) == c.type \in {"Code", "Container"}

\* Code.__add__
Code_add(self, other_operand) ==
    LET b == Cat(code_to_bytes(self), code_to_bytes(other_operand))
    IN  IF b.ok THEN Ok(Code(Some(b.val), None)) ELSE b

\* Code.__radd__ that puts self first, as __add__ does
Code_radd_self_first(self, other_operand) ==
    LET b == Cat(code_to_bytes(self), code_to_bytes(other_operand))
    IN  IF b.ok THEN Ok(Code(Some(b.val), None)) ELSE b

\* Code.__radd__
Code_radd(self, other_operand) ==
    LET b == Cat(code_to_bytes(other_operand), code_to_bytes(self))
    IN  IF b.ok THEN Ok(Code(Some(b.val), None)) ELSE b

\* left + right where at least one side is a Code: Python calls __add__ of a
\* left Code, and __radd__ of the right Code when the left value is a str,
\* bytes or None, whose own addition does not take a Code
Add(left, right) ==
    IF IsCode(left) THEN Code_add(left, right) ELSE Code_radd(right, left)

----------------------------------------------------------------------------
(* Code scenario: two values are chosen, then one operation is applied.    *)

\* hex text as test_code.py and test_eof_v1.py write it, and text that is
\* not hex
TextInputs ==
    { Str(<< >>),
      Str(<<"0", "x">>),
      Str(<<"0", "x", "0", "1">>),
      Str(<<"0", "1">>),
      Str(<<"0", "x", " ", "6", "1", " ", "0", "0">>),
      Str(<<"6", "1", "0", "0">>),
      Str(<<"0", "x", "0">>),
      Str(<<"0", "x", "z", "z">>),
      Str(<<" ", "0", "x", "\t", "A", "b", "\n">>),
      Str(<<"0", "X", "0", "1">>),
      Str(<<"0", "x", "0", "x", "0", "1">>) }

CodeObjectInputs ==
    { Code(None, None), Code(Some(<< >>), None), Code(Some(<<0>>), None),
      Code(Some(<<96, 2, 96, 1, 85>>), Some("sstore")), NestedInput }

\* an argument that is none of Code, bytes, str
IntInput == [type |-> "int", int |-> 5]

OtherInputs ==
    CodeObjectInputs
    \cup { Bytes(<< >>), Bytes(<<0>>), Bytes(<<255, 1>>) }
    \cup TextInputs
    \cup { NoneData, IntInput }

InitCode ==
    /\ pc = "chosen"
    /\ code \in CodeObjectInputs
    /\ other_code \in OtherInputs
    /\ result = None
    /\ initcode = None
    /\ container = NestedInput
    /\ ALL_VALID_CONTAINERS = << >>
    /\ ALL_INVALID_CONTAINERS = << >>
    /\ idx = 0
    /\ enabled_eips = << >>
    /\ eof_types = << >>
    /\ eof_data = << >>
    /\ NoGenerator /\ NoTool

\* Code(text).assemble(), as test_code.py test_code writes it
ConstructFromText ==
    /\ pc = "chosen"
    /\ other_code.type = "str"
    /\ result' = Some(LET c == Code_init(<<other_code>>, None, None)
                      IN  IF c.ok THEN Code_assemble(c.val) ELSE c)
    /\ pc' = "constructed"
    /\ UNCHANGED <<container, code, initcode,
                   ALL_VALID_CONTAINERS, ALL_INVALID_CONTAINERS, idx,
                   enabled_eips>>
    /\ UNCHANGED <<operand_vars, generator_vars, tool_vars>>

\* code + other_code
AddRight ==
    /\ pc = "chosen"
    /\ result' = Some(Add(code, other_code))
    /\ pc' = "added"
    /\ UNCHANGED <<container, code, initcode,
                   ALL_VALID_CONTAINERS, ALL_INVALID_CONTAINERS, idx,
                   enabled_eips>>
    /\ UNCHANGED <<operand_vars, generator_vars, tool_vars>>

\* other_code + code
AddLeft ==
    /\ pc = "chosen"
    /\ result' = Some(Add(other_code, code))
    /\ pc' = "added_left"
    /\ UNCHANGED <<container, code, initcode,
                   ALL_VALID_CONTAINERS, ALL_INVALID_CONTAINERS, idx,
                   enabled_eips>>
    /\ UNCHANGED <<operand_vars, generator_vars, tool_vars>>

\* code_to_bytes(other_code)
ConvertToBytes ==
    /\ pc = "chosen"
    /\ result' = Some(code_to_bytes(other_code))
    /\ pc' = "converted"
    /\ UNCHANGED <<container, code, initcode,
                   ALL_VALID_CONTAINERS, ALL_INVALID_CONTAINERS, idx,
                   enabled_eips>>
    /\ UNCHANGED <<operand_vars, generator_vars, tool_vars>>

NextCode ==
    \/ ConstructFromText
    \/ AddRight
    \/ AddLeft
    \/ ConvertToBytes

SpecCode == InitCode /\ [][NextCode]_vars

----------------------------------------------------------------------------
(* Properties of code values                                               *)

ExpectedFromText ==
    [t \in { Str(<< >>), Str(<<"0", "x">>),
             Str(<<"0", "x", "0", "1">>), Str(<<"0", "1">>) } |->
        IF Len(t.str) < 2 \/ t.str = <<"0", "x">> THEN << >> ELSE <<1>>]

\* C23: Code(text).assemble() returns the empty byte sequence for the texts
\* "" and "0x" and the single byte 01 for the texts "0x01" and "01".
C23_CodeFromHexText ==
    (pc = "constructed" /\ other_code \in DOMAIN ExpectedFromText) =>
        /\ result[1].ok
        /\ result[1].val = ExpectedFromText[other_code]

\* a value code_to_bytes converts
Converts(c) == code_to_bytes(c).ok

BytesOfSum(sum) == Code_assemble(sum.val).val

\* C24 (state part): after code + other_code with other_code a Code, bytes
\* or hex text, the sum assembles to code_to_bytes(code) followed by
\* code_to_bytes(other_code); after other_code + code with other_code bytes
\* or hex text, to code_to_bytes(other_code) followed by code_to_bytes(code);
\* and adding a third value to the sum gives the bytes of adding the sum of
\* the last two to the first.
C24_SumBytes ==
    /\ (pc = "added" /\ Converts(other_code)) =>
          /\ result[1].ok
          /\ result[1].val.type = "Code"
          /\ BytesOfSum(result[1])
                = code_to_bytes(code).val \o code_to_bytes(other_code).val
          /\ \A third \in OtherInputs :
                (Converts(third) /\ (IsCode(other_code) \/ IsCode(third))) =>
                    LET left == Add(result[1].val, third)
                        inner == Add(other_code, third)
                        right == Add(code, inner.val)
                    IN  /\ left.ok /\ inner.ok /\ right.ok
                        /\ BytesOfSum(left) = BytesOfSum(right)
    /\ (pc = "added_left" /\ Converts(other_code) /\ ~IsCode(other_code)) =>
          /\ result[1].ok
          /\ result[1].val.type = "Code"
          /\ BytesOfSum(result[1])
                = code_to_bytes(other_code).val \o code_to_bytes(code).val

\* C24: the sums are as C24_SumBytes says in every state, and no step
\* changes an operand.
C24_AddConcatenates ==
    /\ []C24_SumBytes
    /\ [][code' = code /\ other_code' = other_code]_vars

C24_Witness ==
    /\ pc = "added_left"
    /\ other_code = Str(<<"0", "x", " ", "6", "1", " ", "0", "0">>)
    /\ code = Code(Some(<<96, 2, 96, 1, 85>>), Some("sstore"))
    /\ result[1].ok
    /\ BytesOfSum(result[1]) = <<97, 0, 96, 2, 96, 1, 85>>

\* the characters of a text that are not whitespace, in order
WithoutWhitespace(s) == SelectSeq(s, LAMBDA ch : ch \notin {" ", "\t", "\n", "\r"})

\* the hex digits of a text: its non-whitespace characters after one
\* leading "0x"
DigitsOf(s) ==
    LET t == WithoutWhitespace(s)
    IN  IF Len(t) >= 2 /\ SubSeq(t, 1, 2) = <<"0", "x">>
        THEN SubSeq(t, 3, Len(t)) ELSE t

\* C25: code_to_bytes(other_code) returns other_code.assemble() for a Code
\* (Container.assemble for a Container), the same bytes for bytes, and for
\* a text the bytes its hex digits denote, two digits a byte, when the
\* digits are an even number of hex digits; it raises for a text that is
\* not, for None and for a value of any other type.  "" and "0x" give the
\* empty bytes, "0x 61 00" and "6100" give 61 00.
C25_CodeToBytesRules ==
    pc = "converted" =>
        LET r == result[1]
        IN  /\ other_code.type = "Code" => r = Code_assemble(other_code)
            /\ other_code.type = "Container" => r = assemble(other_code)
            /\ other_code.type = "bytes" => r = Ok(other_code.bytes)
            /\ other_code.type = "str" =>
                  LET d == DigitsOf(other_code.str)
                  IN  IF Len(d) % 2 = 0 /\ \A i \in 1..Len(d) : IsHexChar(d[i])
                      THEN /\ r.ok
                           /\ Len(r.val) = Len(d) \div 2
                           /\ \A i \in 1..Len(r.val) :
                                 r.val[i] = 16 * HexVal(d[2 * i - 1]) + HexVal(d[2 * i])
                      ELSE ~r.ok
            /\ other_code.type \notin {"Code", "Container", "bytes", "str"} => ~r.ok
            /\ other_code \in {Str(<< >>), Str(<<"0", "x">>)} => r = Ok(<< >>)
            /\ other_code \in {Str(<<"0", "x", " ", "6", "1", " ", "0", "0">>),
                               Str(<<"6", "1", "0", "0">>)} => r = Ok(<<97, 0>>)

C25_Witness ==
    /\ pc = "converted"
    /\ other_code = Str(<<" ", "0", "x", "\t", "A", "b", "\n">>)
    /\ result[1] = Ok(<<171>>)

----------------------------------------------------------------------------
(* fillers/eof/v1.py: the test generators.  A generator is called once     *)
(* the module-level statements have run; every iteration of its loop, up   *)
(* to the yield, is one step.                                              *)

\* the module lists once every module-level loop has run
FILLED_VALID_CONTAINERS ==
    INITIAL_VALID_CONTAINERS
    \o (IF In(EIP_CODE_VALIDATION, V1_EOF_EIPS)
        THEN [k \in 1..Len(VALID_TERMINATING_OPCODES) |->
                 ValidTerminatingContainer(VALID_TERMINATING_OPCODES[k])]
             \o (IF In(EIP_STATIC_RELATIVE_JUMPS, V1_EOF_EIPS)
                 THEN [k \in 1..Len(valid_codes) |-> RjumpContainer(valid_codes[k])]
                 ELSE << >>)
        ELSE << >>)

FILLED_INVALID_CONTAINERS ==
    INITIAL_INVALID_CONTAINERS
    \o (IF In(EIP_CODE_VALIDATION, V1_EOF_EIPS)
        THEN [k \in 1..Len(INVALID_TERMINATING_OPCODES) |->
                 InvalidTerminatingContainer(INVALID_TERMINATING_OPCODES[k])]
             \o [k \in 1..Len(INVALID_OPCODES) |->
                    InvalidOpcodeContainer(INVALID_OPCODES[k])]
             \o Flatten([k \in 1..Len(VALID_DATA_PORTION_OPCODES) |->
                            DataPortionContainers(VALID_DATA_PORTION_OPCODES[k])])
             \o (IF In(EIP_STATIC_RELATIVE_JUMPS, V1_EOF_EIPS)
                 THEN [k \in 1..Len(invalid_codes) |-> RjumpContainer(invalid_codes[k])]
                 ELSE << >>)
        ELSE << >>)

\* the test functions, by name
Generators ==
    { "test_legacy_initcode_valid_eof_v1_contract",
      "test_legacy_initcode_invalid_eof_v1_contract_tx",
      "test_legacy_initcode_invalid_eof_v1_contract_create" }

\* the list a generator loops over
GeneratorList(generator) ==
    IF generator = "test_legacy_initcode_valid_eof_v1_contract"
    THEN ALL_VALID_CONTAINERS
    ELSE ALL_INVALID_CONTAINERS

\* tx = Transaction(nonce=0, to=..., ...): the one Transaction object of a
\* generator call; data is not given
Transaction == [data |-> None]

\* post = {created_contract_address: Account()} or Account.NONEXISTENT: the
\* one post-state object of a generator call; code is not given
Post == [code |-> None]

\* StateTest(env=env, pre=pre, post=post, txs=[tx], name=container.name):
\* the arguments are the objects themselves, here by the name of the
\* variable that holds them
StateTest(post_object, txs, name) ==
    [post |-> post_object, txs |-> txs, name |-> name]

\* "filling test for "
FillingTestFor ==
    Str(<<"f", "i", "l", "l", "i", "n", "g", " ", "t", "e", "s", "t", " ", "f", "o", "r", " ">>)

InitGenerators ==
    /\ pc \in Generators
    /\ idx = 1
    /\ ALL_VALID_CONTAINERS = FILLED_VALID_CONTAINERS
    /\ ALL_INVALID_CONTAINERS = FILLED_INVALID_CONTAINERS
    /\ enabled_eips = V1_EOF_EIPS
    /\ tx = Transaction
    /\ post = Post
    /\ tests = << >>
    /\ container = NestedInput
    /\ initcode = None
    /\ result = None
    /\ code = NoneData
    /\ NoOperands /\ NoTool

\* one iteration of the loop of test_legacy_initcode_valid_eof_v1_contract
YieldValid ==
    /\ pc = "test_legacy_initcode_valid_eof_v1_contract"
    /\ result = None
    /\ idx <= Len(ALL_VALID_CONTAINERS)
    /\ container' = ALL_VALID_CONTAINERS[idx]
    /\ initcode' = Some(generate_initcode(container'))
    /\ IF initcode'[1].ok
       THEN /\ tx' = [tx EXCEPT !.data = Some(initcode'[1].val)]
            /\ post' = [post EXCEPT !.code = Some(container')]
            /\ tests' = Append(tests, StateTest("post", <<"tx">>, container'.name))
            /\ idx' = idx + 1
            /\ UNCHANGED result
       ELSE /\ result' = initcode'
            /\ UNCHANGED <<tx, post, tests, idx>>
    /\ UNCHANGED pc
    /\ UNCHANGED <<code, ALL_VALID_CONTAINERS, ALL_INVALID_CONTAINERS,
                   enabled_eips, operand_vars, tool_vars>>

\* one iteration of the loop of test_legacy_initcode_invalid_eof_v1_contract_tx
YieldInvalidTx ==
    /\ pc = "test_legacy_initcode_invalid_eof_v1_contract_tx"
    /\ result = None
    /\ idx <= Len(ALL_INVALID_CONTAINERS)
    /\ container' = ALL_INVALID_CONTAINERS[idx]
    /\ initcode' = Some(generate_initcode(container'))
    /\ IF ~initcode'[1].ok
       THEN /\ result' = initcode'
            /\ UNCHANGED <<tx, tests, idx>>
       ELSE /\ tx' = [tx EXCEPT !.data = Some(initcode'[1].val)]
            \* print("filling test for "+container)
            /\ IF Add(FillingTestFor, container').ok
               THEN /\ tests' = Append(tests, StateTest("post", <<"tx">>, container'.name))
                    /\ idx' = idx + 1
                    /\ UNCHANGED result
               ELSE /\ result' = Some(Add(FillingTestFor, container'))
                    /\ UNCHANGED <<tests, idx>>
    /\ UNCHANGED <<pc, post>>
    /\ UNCHANGED <<code, ALL_VALID_CONTAINERS, ALL_INVALID_CONTAINERS,
                   enabled_eips, operand_vars, tool_vars>>

\* one iteration of the loop of
\* test_legacy_initcode_invalid_eof_v1_contract_create
YieldInvalidCreate ==
    /\ pc = "test_legacy_initcode_invalid_eof_v1_contract_create"
    /\ result = None
    /\ idx <= Len(ALL_INVALID_CONTAINERS)
    /\ container' = ALL_INVALID_CONTAINERS[idx]
    /\ initcode' = Some(generate_initcode(container'))
    /\ IF initcode'[1].ok
       THEN /\ tx' = [tx EXCEPT !.data = Some(initcode'[1].val)]
            /\ tests' = Append(tests, StateTest("post", <<"tx">>, container'.name))
            /\ idx' = idx + 1
            /\ UNCHANGED result
       ELSE /\ result' = initcode'
            /\ UNCHANGED <<tx, tests, idx>>
    /\ UNCHANGED <<pc, post>>
    /\ UNCHANGED <<code, ALL_VALID_CONTAINERS, ALL_INVALID_CONTAINERS,
                   enabled_eips, operand_vars, tool_vars>>

\* the loop of a generator is over: the generator returns
GeneratorReturn ==
    /\ pc \in Generators
    /\ result = None
    /\ idx > Len(GeneratorList(pc))
    /\ result' = Some(Ok(<< >>))
    /\ UNCHANGED <<pc, idx, container, initcode, generator_vars>>
    /\ UNCHANGED <<code, ALL_VALID_CONTAINERS, ALL_INVALID_CONTAINERS,
                   enabled_eips, operand_vars, tool_vars>>

NextGenerators ==
    \/ YieldValid
    \/ YieldInvalidTx
    \/ YieldInvalidCreate
    \/ GeneratorReturn

SpecGenerators == InitGenerators /\ [][NextGenerators]_vars

----------------------------------------------------------------------------
(* Properties of the test generators                                       *)

\* the object a yielded test holds under the name ref, as it is now
Deref(ref) == IF ref = "tx" THEN tx ELSE post

\* C26: at any point of a generator's run, the i-th test it has yielded
\* holds a transaction whose data is generate_initcode of the i-th container
\* of the generator's list and, for the generator over the valid list, a
\* post-state whose code is that container.
C26_YieldedTestsKeepOwnContainer ==
    pc \in Generators =>
        \A i \in 1..Len(tests) :
            /\ Deref(tests[i].txs[1]).data
                  = Some(generate_initcode(GeneratorList(pc)[i]).val)
            /\ pc = "test_legacy_initcode_valid_eof_v1_contract" =>
                  Deref(tests[i].post).code = Some(GeneratorList(pc)[i])

\* C27: when test_legacy_initcode_invalid_eof_v1_contract_tx has finished,
\* it has returned (no step has raised) and has yielded one test per element
\* of ALL_INVALID_CONTAINERS, in list order, each with the name of its
\* container.
C27_InvalidTxGeneratorCompletes ==
    (pc = "test_legacy_initcode_invalid_eof_v1_contract_tx" /\ result # None) =>
        /\ result[1].ok
        /\ Len(tests) = Len(ALL_INVALID_CONTAINERS)
        /\ \A i \in 1..Len(tests) : tests[i].name = ALL_INVALID_CONTAINERS[i].name

----------------------------------------------------------------------------
(* Properties of the fixtures as inputs of the serializer                  *)

\* C28: at any point of the generation, every element of
\* ALL_VALID_CONTAINERS and ALL_INVALID_CONTAINERS converts to bytes without
\* an exception, to fewer than 65536 bytes, and generate_initcode returns
\* for it; in every Container among them every section has data, a kind in
\* 0..255 and a header size in 0..65535, and custom_magic and custom_version,
\* where set, are in 0..255.
C28_FixturesSerializable ==
    \A i \in 1..Len(AllFixtures) :
        LET f == AllFixtures[i]
        IN  /\ code_to_bytes(f).ok
            /\ Len(code_to_bytes(f).val) < 65536
            /\ generate_initcode(f).ok
            /\ Len(Code_assemble(generate_initcode(f).val).val)
                  = 11 + Len(code_to_bytes(f).val)
            /\ f.type = "Container" =>
                  /\ \A k \in 1..Len(f.sections) :
                        /\ f.sections[k].data.type # "None"
                        /\ f.sections[k].kind \in 0..255
                        /\ HeaderSizeOf(f.sections[k]) \in 0..65535
                  /\ f.custom_magic # None => f.custom_magic[1] \in 0..255
                  /\ f.custom_version # None => f.custom_version[1] \in 0..255

C28_Witness ==
    /\ pc = "done"
    /\ Len(AllFixtures) = 515
    /\ \E i \in 1..Len(AllFixtures) :
          /\ AllFixtures[i].type = "Container"
          /\ AllFixtures[i].custom_magic = Some(255)
    /\ \E i \in 1..Len(AllFixtures) :
          /\ AllFixtures[i].type = "Container"
          /\ Len(AllFixtures[i].sections) = 2
          /\ AllFixtures[i].sections[2].custom_size = Some(4)
    /\ \E i \in 1..Len(AllFixtures) : AllFixtures[i].type = "Code"

----------------------------------------------------------------------------
(* fillers/eof/container.py                                                *)

\* for c in code: out.extend(len(c).to_bytes(2, 'big'))
RECURSIVE extend_code_sizes(_, _)
extend_code_sizes(out, code_list) ==
    IF code_list = << >> \/ ~out.ok THEN out
    ELSE extend_code_sizes(Cat(out, to_bytes(Len(Head(code_list)), 2)),
                           Tail(code_list))

\* for ty in types: inputs, outputs, max_stack_height
RECURSIVE extend_types(_, _)
extend_types(out, type_list) ==
    IF type_list = << >> \/ ~out.ok THEN out
    ELSE extend_types(Cat(Cat(Cat(out, to_bytes(Head(type_list)[1], 1)),
                              to_bytes(Head(type_list)[2], 1)),
                          to_bytes(Head(type_list)[3], 2)),
                      Tail(type_list))

\* for c in code: out.extend(c)
RECURSIVE extend_code(_, _)
extend_code(out, code_list) ==
    IF code_list = << >> \/ ~out.ok THEN out
    ELSE extend_code(Cat(out, Ok(Head(code_list))), Tail(code_list))

\* make_eof
make_eof(type_list, code_list, data_bytes) ==
    LET o0 == Ok(<<239, 0>>)
        \* version
        o1 == Cat(o0, Ok(<<1>>))
        \* kind: type
        o2 == Cat(Cat(o1, Ok(<<1>>)), to_bytes(Len(type_list) * 4, 2))
        \* kind: code
        o3 == extend_code_sizes(Cat(o2, Ok(<<2>>)), code_list)
        \* kind: data
        o4 == Cat(Cat(o3, Ok(<<3>>)), to_bytes(Len(data_bytes), 2))
        o5 == extend_types(o4, type_list)
        o6 == extend_code(o5, code_list)
    IN  Cat(o6, Ok(data_bytes))

----------------------------------------------------------------------------
(* make_eof scenario: the arguments are chosen, then make_eof is called.   *)

\* (inputs, outputs, max_stack_height); the last does not fit its field
TypeInputs == { <<0, 0, 0>>, <<1, 1, 2>>, <<256, 0, 0>> }

CodeBodyInputs == { <<0>>, <<95, 0>> }

InitMakeEof ==
    /\ pc = "chosen"
    /\ eof_types \in SeqsUpTo(TypeInputs, MaxSections)
    /\ code \in SeqsUpTo(CodeBodyInputs, MaxSections)
    /\ eof_data \in { << >>, <<170>> }
    /\ other_code = NoneData
    /\ result = None
    /\ initcode = None
    /\ container = NestedInput
    /\ ALL_VALID_CONTAINERS = << >>
    /\ ALL_INVALID_CONTAINERS = << >>
    /\ idx = 0
    /\ enabled_eips = << >>
    /\ NoGenerator /\ NoTool

MakeEof ==
    /\ pc = "chosen"
    /\ result' = Some(make_eof(eof_types, code, eof_data))
    /\ pc' = "made"
    /\ UNCHANGED <<container, code, initcode,
                   ALL_VALID_CONTAINERS, ALL_INVALID_CONTAINERS, idx,
                   enabled_eips>>
    /\ UNCHANGED <<operand_vars, generator_vars, tool_vars>>

NextMakeEof == MakeEof

SpecMakeEof == InitMakeEof /\ [][NextMakeEof]_vars

----------------------------------------------------------------------------
(* Properties of make_eof                                                  *)

RECURSIVE TotalLen(_)
TotalLen(list) == IF list = << >> THEN 0 ELSE Len(Head(list)) + TotalLen(Tail(list))

\* C29: when make_eof returns, the kind byte of the header entry it writes
\* for the type section is SectionKind.TYPE, for the code sections
\* SectionKind.CODE and for the data section SectionKind.DATA; the size of
\* the type entry is 4 times the number of type entries and is the number
\* of body bytes written for the type section.
C29_MakeEofKindsAgree ==
    (pc = "made" /\ result[1].ok) =>
        LET out == result[1].val
            n == Len(code)
            header == 10 + 2 * n
        IN  /\ out[4] = SectionKind.TYPE
            /\ out[7] = SectionKind.CODE
            /\ out[8 + 2 * n] = SectionKind.DATA
            /\ 256 * out[5] + out[6] = 4 * Len(eof_types)
            /\ Len(out) - header - TotalLen(code) - Len(eof_data)
                  = 256 * out[5] + out[6]

----------------------------------------------------------------------------
(* evm_transition_tool/__init__.py: EvmTransitionTool                      *)

MaxCalls == 4

\* str.strip()
RECURSIVE lstrip(_)
lstrip(s) ==
    IF s # << >> /\ Head(s) \in Whitespace THEN lstrip(Tail(s)) ELSE s

RECURSIVE rstrip(_)
rstrip(s) ==
    IF s # << >> /\ s[Len(s)] \in Whitespace
    THEN rstrip(SubSeq(s, 1, Len(s) - 1)) ELSE s

strip(s) == rstrip(lstrip(s))

\* bytes.decode() of the captured stdout
decode(stdout) ==
    IF stdout.decodable THEN Ok(stdout.text) ELSE Raise("UnicodeDecodeError")

\* what subprocess.run([binary, "-v"], stdout=PIPE) can return: an exit code
\* and the captured stdout, which is text or bytes that are not UTF-8
StdoutInputs ==
    { [decodable |-> TRUE, text |-> <<"e", "v", "m", " ", "1", ".", "1", "1", "\n">>],
      [decodable |-> TRUE, text |-> <<" ", "e", "v", "m", " ", "1", ".", "1", "1">>],
      [decodable |-> TRUE, text |-> <<"1", ".", "1", "2">>],
      [decodable |-> TRUE, text |-> <<"\n">>],
      [decodable |-> FALSE, text |-> << >>] }

RunInputs == [returncode : {0, 1}, stdout : StdoutInputs]

\* version that runs the binary on every call
version_always_runs(cached, run) ==
    IF run.returncode # 0
    THEN [ran |-> TRUE, cached |-> cached, outcome |-> Raise("AttributeError")]
    ELSE LET text == decode(run.stdout)
         IN  IF ~text.ok
             THEN [ran |-> TRUE, cached |-> cached, outcome |-> text]
             ELSE [ran |-> TRUE, cached |-> Some(strip(text.val)),
                   outcome |-> Ok(strip(text.val))]

\* EvmTransitionTool.version on an instance whose cached_version is cached,
\* where run is what the binary returns if it is run: whether the binary was
\* run, cached_version afterwards, and what the call returned or raised
version(cached, run) ==
    IF cached # None
    THEN [ran |-> FALSE, cached |-> cached, outcome |-> Ok(cached[1])]
    ELSE IF run.returncode # 0
         \* stderr is not captured: result.stderr is None and
         \* result.stderr.decode() raises before the Exception is built
         THEN [ran |-> TRUE, cached |-> cached, outcome |-> Raise("AttributeError")]
         ELSE LET text == decode(run.stdout)
              IN  IF ~text.ok
                  THEN [ran |-> TRUE, cached |-> cached, outcome |-> text]
                  ELSE [ran |-> TRUE, cached |-> Some(strip(text.val)),
                        outcome |-> Ok(strip(text.val))]

\* what EvmTransitionTool(binary) is given and finds: the path exists or
\* not, either as the argument or as the result of which("evm")
BinaryInputs == {"none", "missing", "present"}

InitTool ==
    /\ pc = "start"
    /\ cached_version = None
    /\ version_calls = << >>
    /\ container = NestedInput
    /\ result = None
    /\ code = NoneData
    /\ initcode = None
    /\ ALL_VALID_CONTAINERS = << >>
    /\ ALL_INVALID_CONTAINERS = << >>
    /\ idx = 0
    /\ enabled_eips = << >>
    /\ NoOperands /\ NoGenerator

\* EvmTransitionTool.__init__
Construct ==
    /\ pc = "start"
    /\ \E binary \in BinaryInputs, which_path \in {"none", "present"} :
          LET found == IF binary = "none" THEN which_path ELSE binary
          IN  pc' = IF found # "present" THEN "init_raised" ELSE "tool"
    /\ UNCHANGED <<container, result, code, initcode,
                   ALL_VALID_CONTAINERS, ALL_INVALID_CONTAINERS, idx,
                   enabled_eips, operand_vars, generator_vars, tool_vars>>

\* one call of version() on the instance
Version ==
    /\ pc = "tool"
    /\ Len(version_calls) < MaxCalls
    /\ \E run \in RunInputs :
          /\ cached_version' = version(cached_version, run).cached
          /\ version_calls' =
                Append(version_calls,
                       [ran |-> version(cached_version, run).ran,
                        returncode |-> IF version(cached_version, run).ran
                                       THEN run.returncode ELSE 0,
                        outcome |-> version(cached_version, run).outcome])
    /\ UNCHANGED <<pc, container, result, code, initcode,
                   ALL_VALID_CONTAINERS, ALL_INVALID_CONTAINERS, idx,
                   enabled_eips, operand_vars, generator_vars>>

NextTool ==
    \/ Construct
    \/ Version

SpecTool == InitTool /\ [][NextTool]_vars

----------------------------------------------------------------------------
(* Properties of EvmTransitionTool.version                                 *)

\* the calls that returned
Successes == { i \in 1..Len(version_calls) : version_calls[i].outcome.ok }

\* C30 (state part): of the calls made so far, none after the first that
\* returned has run the binary, and each of them returned the string that
\* one returned; every call before it has run the binary; a call whose run
\* exited with a nonzero code has raised, and if it is the last call so far
\* cached_version is still None.
C30_CallsSoFar ==
    /\ \A i \in 1..Len(version_calls) :
          LET call == version_calls[i]
          IN  /\ (\E s \in Successes : s < i) =>
                    /\ ~call.ran
                    /\ call.outcome.ok
                    /\ \A s \in Successes : call.outcome.val = version_calls[s].outcome.val
              /\ (\A s \in Successes : s >= i) => call.ran
              /\ (call.ran /\ call.returncode # 0) =>
                    /\ ~call.outcome.ok
                    /\ i = Len(version_calls) => cached_version = None
    /\ Cardinality({ i \in Successes : version_calls[i].ran }) <= 1
    /\ Successes = {} <=> cached_version = None

\* C30: C30_CallsSoFar holds in every state, and once cached_version is set
\* no step changes it.
C30_VersionCached ==
    /\ []C30_CallsSoFar
    /\ [][cached_version # None => cached_version' = cached_version]_vars

C30_Witness ==
    /\ Len(version_calls) = 4
    /\ version_calls[1].ran /\ version_calls[1].returncode = 1
    /\ version_calls[2].ran /\ version_calls[2].outcome.ok
    /\ version_calls[2].outcome.val = <<"e", "v", "m", " ", "1", ".", "1", "1">>
    /\ ~version_calls[3].ran /\ ~version_calls[4].ran
    /\ version_calls[4].outcome.val = version_calls[2].outcome.val

====
